---- MODULE Spec2Model ----
(***************************************************************************)
(* A model of the aws_bundle package of go_ami_tools: the bundle Writer    *)
(* (tar -> gzip -> AES-128-CBC -> chunk writer -> hashing sink -> Sink),   *)
(* its byte counters and the manifest writer.                              *)
(*                                                                         *)
(* Byte streams are sequences.  The bytes are tagged tuples, so that every  *)
(* stream shows where each of its bytes comes from:                        *)
(*   <<"in", i>>       byte i of what the caller passes to Write           *)
(*   <<"hdr", size>>   the tar header block (TarBlockSize bytes)           *)
(*   <<"zero", n>>     a run of n zero bytes written by the tar framer     *)
(*   <<"gh", i>>       byte i of the gzip header                           *)
(*   <<"gd", k, i>>    byte i of the k-th piece of deflate output          *)
(*   <<"gt", i>>       byte i of the gzip trailer                          *)
(*   <<"ct", j, i>>    byte i of the j-th ciphertext block                 *)
(* SHA-1 is modelled by the sequence of bytes the hash absorbed.           *)
(***************************************************************************)
EXTENDS Integers, Sequences, FiniteSets, TLC

\* ---------------------------------------------------------------- bounds
\* longest argument of one Write call
MaxWriteLen == 2
\* most calls (Write, Close, WriteManifest) on one Writer in one run
MaxCalls == 4
\* the size declared to NewWriter is 0 or MaxSize
MaxSize == 2
\* the chunk size given to newChunkWriter by NewWriter, scaled down from
\* 10*1024*1024 so that a bundle of a few blocks spans several parts
ChunkSize == 20
\* a chunk writer used on its own: largest chunk size, longest argument of
\* one Write call, most Write calls
MaxChunk == 3
MaxChunkWriteLen == 4
MaxChunkWrites == 3
\* the sink call (counted from 1 over the run) that may fail
MaxFailAt == 4
\* the deflate output the compressor may hand down in one go
MaxEmit == 12
\* a hashing sink used on its own: most files opened, most Write calls
MaxFiles == 2
MaxFileWrites == 3


Min(a, b) == IF a < b THEN a ELSE b

\* ------------------------------------------------------------- the state
VARIABLES
    mode,        \* which program runs: "bundle" (a Writer) or "chunks" (a bare chunkWriter)
    bw,          \* Writer: size, didInitialWrite, closed
    tw,          \* archive/tar Writer held in Writer.tar
    sha1,        \* Writer.sha1: the bytes absorbed by the plaintext hash
    gz,          \* the gzip writer held in Writer.gz
    aes,         \* aesCbcWriter: buffer, cbc, blocks encrypted
    counters,    \* Writer.bundledSize.n and Writer.trueSize.n
    cw,          \* chunkWriter: chunkSize, current.{filename,w,index,offset}
    hsw,         \* the hashingSinkWriter behind cw.current.w
    hs,          \* hashingSink.files
    sink,        \* the caller's Sink: files, the calls made to it
    trace,       \* what happened, in order: sink calls and stage closes
    faults,      \* the sink calls that fail, and how
    caller,      \* what the caller did: bytes passed, results seen
    mutex,       \* hashingSink.Mutex: 0 when unlocked, else the goroutine holding it
    goroutines   \* the goroutines using one hashingSink at once: position, locals

vars == <<mode, bw, tw, sha1, gz, aes, counters, cw, hsw, hs, sink, trace, faults, caller,
          mutex, goroutines>>

\* The objects reachable from one Writer, as one value handed through a call.
Cur ==
    [bw |-> bw, tw |-> tw, sha1 |-> sha1, gz |-> gz, aes |-> aes,
     counters |-> counters, cw |-> cw, hsw |-> hsw, hs |-> hs,
     sink |-> sink, trace |-> trace]

Commit(P) ==
    /\ bw' = P.bw
    /\ tw' = P.tw
    /\ sha1' = P.sha1
    /\ gz' = P.gz
    /\ aes' = P.aes
    /\ counters' = P.counters
    /\ cw' = P.cw
    /\ hsw' = P.hsw
    /\ hs' = P.hs
    /\ sink' = P.sink
    /\ trace' = P.trace

\* A call result: the objects after the call, the count and the error.
Ret(P, n, err) == [P |-> P, n |-> n, err |-> err]

\* r, the result of a call, handed to the code that follows the call.
With(r, Then(_)) == Then(r)

\* ------------------------------------------------------- the caller's Sink
\* A Sink is any implementation of WriteBundleFile.  Each call made to it or
\* to one of its files is numbered; the calls numbered in faults.at fail.
\* A failing Write accepts the first half of its bytes and returns an error.
\* With faults.short, a Write to the manifest file accepts the first half of
\* its bytes and returns no error: io.Writer forbids it, and WriteManifest is
\* the one caller that looks for it.
PartName(i) == <<"part", i>>
ManifestName == <<"manifest.xml">>

SinkFails(P) == (P.sink.calls + 1) \in faults.at

Sink_WriteBundleFile(P, filename) ==
    IF SinkFails(P)
    THEN Ret([P EXCEPT !.sink.calls = @ + 1,
                       !.trace = Append(@, <<"open", filename, FALSE>>)],
             0, "sink-open")
    ELSE Ret([P EXCEPT !.sink.calls = @ + 1,
                       !.sink.files = Append(@, [name |-> filename, data |-> <<>>, open |-> TRUE]),
                       !.trace = Append(@, <<"open", filename, TRUE>>)],
             Len(P.sink.files) + 1, "nil")

SinkFile_Write(P, fid, p) ==
    LET short == faults.short /\ P.sink.files[fid].name = ManifestName
        n == IF SinkFails(P) \/ short THEN Len(p) \div 2 ELSE Len(p)
        Q == [P EXCEPT !.sink.calls = @ + 1,
                       !.sink.files[fid].data = @ \o SubSeq(p, 1, n),
                       !.trace = Append(@, <<"write", P.sink.files[fid].name, n, Len(p)>>)]
    IN  Ret(Q, n, IF SinkFails(P) THEN "sink-write" ELSE "nil")

SinkFile_Close(P, fid) ==
    Ret([P EXCEPT !.sink.calls = @ + 1,
                  !.sink.files[fid].open = FALSE,
                  !.trace = Append(@, <<"close", P.sink.files[fid].name>>)],
        0, IF SinkFails(P) THEN "sink-close" ELSE "nil")

\* ------------------------------------------------------------ hashingSink
NoWriter == [name |-> <<>>, h |-> <<>>, w |-> 0]

hashingSink_WriteBundleFile(P, filename) ==
    With(Sink_WriteBundleFile(P, filename), LAMBDA r :
        IF r.err # "nil" THEN r
        ELSE Ret([r.P EXCEPT !.hsw = [name |-> filename, h |-> <<>>, w |-> r.n]],
                 r.n, "nil"))

hashingSinkWriter_Write(P, p) ==
    SinkFile_Write([P EXCEPT !.hsw.h = @ \o p], P.hsw.w, p)

\* a Close that records the file only once the file below closed without error
Mutant_hashingSinkWriter_Close(P) ==
    With(SinkFile_Close(P, P.hsw.w), LAMBDA r :
        IF r.err # "nil" THEN r
        ELSE Ret([r.P EXCEPT !.hs = Append(@, [filename |-> P.hsw.name, hash |-> P.hsw.h])],
                 0, "nil"))

hashingSinkWriter_Close(P) ==
    SinkFile_Close([P EXCEPT !.hs = Append(@, [filename |-> P.hsw.name, hash |-> P.hsw.h])],
                   P.hsw.w)

\* ------------------------------------------------------------ chunkWriter
\* a chunk that takes one byte too many
Mutant_bytesRemainingInChunk(P) ==
    IF ~P.cw.w THEN 0 ELSE P.cw.chunkSize - P.cw.offset + 1

bytesRemainingInChunk(P) ==
    IF ~P.cw.w THEN 0 ELSE P.cw.chunkSize - P.cw.offset

closeChunk(P) ==
    With(hashingSinkWriter_Close(P), LAMBDA r :
        Ret([r.P EXCEPT !.cw.w = FALSE], 0, r.err))

\* a rotation that keeps the index
Mutant_newChunk(P) ==
    With(IF P.cw.w THEN closeChunk(P) ELSE Ret(P, 0, "nil"), LAMBDA c :
        IF c.err # "nil" THEN c
        ELSE With(hashingSink_WriteBundleFile(
                      [c.P EXCEPT !.cw.filename = PartName(P.cw.index),
                                  !.cw.offset = 0],
                      PartName(P.cw.index)), LAMBDA o :
                 IF o.err # "nil" THEN Ret(o.P, 0, o.err)
                 ELSE Ret([o.P EXCEPT !.cw.w = TRUE], 0, "nil")))

newChunk(P) ==
    With(IF P.cw.w THEN closeChunk(P) ELSE Ret(P, 0, "nil"), LAMBDA c :
        IF c.err # "nil" THEN c
        ELSE With(hashingSink_WriteBundleFile(
                      [c.P EXCEPT !.cw.filename = PartName(P.cw.index),
                                  !.cw.index = @ + 1,
                                  !.cw.offset = 0],
                      PartName(P.cw.index)), LAMBDA o :
                 IF o.err # "nil" THEN Ret(o.P, 0, o.err)
                 ELSE Ret([o.P EXCEPT !.cw.w = TRUE], 0, "nil")))

\* The loop of chunkWriter.Write: p is what is left to write, n the count so far.
RECURSIVE chunkWriter_Loop(_, _, _)
chunkWriter_Loop(P, p, n) ==
    IF Len(p) = 0 THEN Ret(P, n, "nil")
    ELSE LET bytes == bytesRemainingInChunk(P)
         IN  IF bytes = 0
             THEN chunkWriter_Loop(newChunk(P).P, p, n)
             ELSE LET b == Min(bytes, Len(p))
                      now == SubSeq(p, 1, b)
                      later == SubSeq(p, b + 1, Len(p))
                  IN  With(hashingSinkWriter_Write(P, now), LAMBDA r :
                          LET Q == [r.P EXCEPT !.cw.offset = @ + r.n]
                          IN  IF r.err # "nil" THEN Ret(Q, n + r.n, r.err)
                              ELSE chunkWriter_Loop(Q, later, n + r.n))

chunkWriter_Write(P, p) == chunkWriter_Loop(P, p, 0)

\* a Close that leaves the current part open
Mutant_chunkWriter_Close(P) == Ret(P, 0, "nil")

chunkWriter_Close(P) ==
    IF P.cw.w THEN closeChunk(P) ELSE Ret(P, 0, "nil")

newChunkWriter(chunkSize) ==
    [chunkSize |-> chunkSize, filename |-> <<>>, w |-> FALSE, index |-> 0, offset |-> 0]

\* --------------------------------------------------------- countingWriter
\* Writer.bundledSize: a countingWriter over the chunkWriter.
\* a counter of the bytes offered instead of the bytes written
Mutant_bundledSize_Write(P, p) ==
    With(chunkWriter_Write(P, p), LAMBDA r :
        Ret([r.P EXCEPT !.counters.bundledSize = @ + Len(p)], r.n, r.err))

bundledSize_Write(P, p) ==
    With(chunkWriter_Write(P, p), LAMBDA r :
        Ret([r.P EXCEPT !.counters.bundledSize = @ + r.n], r.n, r.err))

\* ----------------------------------------------------------- aesCbcWriter
BlockSize == 16

\* the ciphertext of the blocks numbered from+1 .. from+k
Ciphertext(from, k) ==
    [i \in 1..(k * BlockSize) |->
        <<"ct", from + ((i - 1) \div BlockSize) + 1, ((i - 1) % BlockSize) + 1>>]

\* a cipher that also hands down the bytes of an incomplete block
Mutant_writeBlocks(P, plaintext) ==
    LET bytes == Len(plaintext)
        Q == [P EXCEPT !.aes.blocks = @ + (bytes \div BlockSize),
                       !.aes.crypted = @ \o plaintext]
    IN  bundledSize_Write(Q, SubSeq(Ciphertext(P.aes.blocks, (bytes \div BlockSize) + 1), 1, bytes))

writeBlocks(P, plaintext) ==
    LET bytes == (Len(plaintext) \div BlockSize) * BlockSize
        Q == [P EXCEPT !.aes.blocks = @ + (bytes \div BlockSize),
                       !.aes.crypted = @ \o SubSeq(plaintext, 1, bytes)]
    IN  bundledSize_Write(Q, Ciphertext(P.aes.blocks, bytes \div BlockSize))

\* the second half of aesCbcWriter.Write: full blocks of p, then the rest
aesCbcWriter_WriteRest(P, p, n) ==
    With(writeBlocks(P, p), LAMBDA r :
        LET n2 == r.n
        IN  IF Len(p) > n2
            THEN Ret([r.P EXCEPT !.aes.buffer = @ \o SubSeq(p, n2 + 1, Len(p))],
                     n + n2 + (Len(p) - n2), r.err)
            ELSE Ret(r.P, n + n2, r.err))

aesCbcWriter_Write(P, p) ==
    IF ~P.aes.cbc THEN Ret(P, 0, "aes-closed")
    ELSE IF Len(P.aes.buffer) > 0
    THEN LET x == Min(BlockSize - Len(P.aes.buffer), Len(p))
         IN  IF x < 0 THEN Ret(P, 0, "panic")
             ELSE LET buffer == P.aes.buffer \o SubSeq(p, 1, x)
                      rest == SubSeq(p, x + 1, Len(p))
                  IN  IF Len(buffer) = BlockSize
                      THEN With(writeBlocks(P, buffer), LAMBDA r :
                               LET Q == [r.P EXCEPT !.aes.buffer = <<>>]
                               IN  IF r.err # "nil" THEN Ret(Q, x, r.err)
                                   ELSE aesCbcWriter_WriteRest(Q, rest, x))
                      ELSE aesCbcWriter_WriteRest([P EXCEPT !.aes.buffer = buffer], rest, 0)
    ELSE aesCbcWriter_WriteRest(P, p, 0)

\* a padding byte that counts the plaintext instead of the padding
Mutant_PaddingByte(plaintextBytes) == <<"pad", plaintextBytes % 256>>

PaddingByte(plaintextBytes) == <<"pad", (BlockSize - plaintextBytes) % 256>>

\* a Close that also closes the writer below it
Mutant_aesCbcWriter_Close(P) ==
    IF ~P.aes.cbc THEN Ret(P, 0, "aes-closed")
    ELSE LET plaintextBytes == Len(P.aes.buffer)
             missing == IF plaintextBytes < BlockSize THEN BlockSize - plaintextBytes ELSE 0
             buffer == P.aes.buffer \o [i \in 1..missing |-> PaddingByte(plaintextBytes)]
         IN  With(writeBlocks([P EXCEPT !.aes.buffer = buffer], buffer), LAMBDA r :
                 IF r.err # "nil" THEN Ret(r.P, 0, r.err)
                 ELSE chunkWriter_Close([r.P EXCEPT !.aes.cbc = FALSE]))

aesCbcWriter_Close(P) ==
    IF ~P.aes.cbc THEN Ret(P, 0, "aes-closed")
    ELSE LET plaintextBytes == Len(P.aes.buffer)
             missing == IF plaintextBytes < BlockSize THEN BlockSize - plaintextBytes ELSE 0
             buffer == P.aes.buffer \o [i \in 1..missing |-> PaddingByte(plaintextBytes)]
         IN  With(writeBlocks([P EXCEPT !.aes.buffer = buffer], buffer), LAMBDA r :
                 IF r.err # "nil" THEN Ret(r.P, 0, r.err)
                 ELSE Ret([r.P EXCEPT !.aes.cbc = FALSE], 0, "nil"))

newAes128CbcWriter == [buffer |-> <<>>, cbc |-> TRUE, blocks |-> 0, crypted |-> <<>>]

\* ------------------------------------------------------------ gzip writer
\* The compressor is a library: it writes a 10-byte header before the first
\* output, hands deflate output down when it chooses to (gz.emit bytes per
\* Write that brought input; a run fixes gz.emit), and on Close writes the
\* final deflate bytes and the 8-byte trailer.  An error of
\* its downstream sticks.  Close does not close the downstream.
GzHeaderLen == 10
GzTrailerLen == 8
GzFinalLen == 2

GzDown(P, bytes) ==
    With(aesCbcWriter_Write(P, bytes), LAMBDA r :
        IF r.err # "nil" THEN Ret([r.P EXCEPT !.gz.err = r.err], r.n, r.err)
        ELSE r)

GzHeader(P) ==
    IF P.gz.wroteHeader THEN Ret(P, 0, "nil")
    ELSE GzDown([P EXCEPT !.gz.wroteHeader = TRUE],
                [i \in 1..GzHeaderLen |-> <<"gh", i>>])

GzPiece(P, len) ==
    GzDown([P EXCEPT !.gz.pieces = @ + 1],
           [i \in 1..len |-> <<"gd", P.gz.pieces + 1, i>>])

gzip_Write(P, p) ==
    IF P.gz.closed THEN Ret(P, 0, "gz-closed")
    ELSE IF P.gz.err # "nil" THEN Ret(P, 0, P.gz.err)
    ELSE With(GzHeader(P), LAMBDA h :
             IF h.err # "nil" THEN Ret(h.P, 0, h.err)
             ELSE LET Q == [h.P EXCEPT !.gz.input = @ \o p]
                  IN  IF Len(p) = 0 \/ P.gz.emit = 0 THEN Ret(Q, Len(p), "nil")
                      ELSE With(GzPiece(Q, P.gz.emit), LAMBDA d :
                               Ret(d.P, Len(p), d.err)))

gzip_Close(P) ==
    IF P.gz.closed THEN Ret(P, 0, "nil")
    ELSE IF P.gz.err # "nil" THEN Ret(P, 0, P.gz.err)
    ELSE With(GzHeader(P), LAMBDA h :
             IF h.err # "nil" THEN Ret(h.P, 0, h.err)
             ELSE With(GzPiece(h.P, GzFinalLen + P.gz.emit), LAMBDA d :
                      IF d.err # "nil" THEN Ret(d.P, 0, d.err)
                      ELSE With(GzDown(d.P, [i \in 1..GzTrailerLen |-> <<"gt", i>>]), LAMBDA t :
                               IF t.err # "nil" THEN Ret(t.P, 0, t.err)
                               ELSE Ret([t.P EXCEPT !.gz.closed = TRUE], 0, "nil"))))

gzip_NewWriterLevel(emit) ==
    [wroteHeader |-> FALSE, err |-> "nil", closed |-> FALSE, pieces |-> 0,
     input |-> <<>>, emit |-> emit]

\* ------------------------------------------- io.MultiWriter(bw.sha1, bw.gz)
\* a tee that feeds the compressor only
Mutant_tee_Write(P, p) ==
    With(gzip_Write(P, p), LAMBDA r :
        IF r.err # "nil" THEN r
        ELSE IF r.n # Len(p) THEN Ret(r.P, r.n, "ErrShortWrite")
        ELSE Ret(r.P, Len(p), "nil"))

tee_Write(P, p) ==
    With(gzip_Write([P EXCEPT !.sha1 = @ \o p], p), LAMBDA r :
        IF r.err # "nil" THEN r
        ELSE IF r.n # Len(p) THEN Ret(r.P, r.n, "ErrShortWrite")
        ELSE Ret(r.P, Len(p), "nil"))

\* ------------------------------------------------------------- tar.Writer
TarBlockSize == 512

TarHeader(size) == <<"hdr", size>>
TarZeros(n) == <<"zero", n>>

tar_Flush(P) ==
    IF P.tw.err # "nil" THEN Ret(P, 0, P.tw.err)
    ELSE IF P.tw.nb > 0 THEN Ret(P, 0, "tar-missed-writing")
    ELSE IF P.tw.pad = 0 THEN Ret(P, 0, "nil")
    ELSE With(tee_Write(P, <<TarZeros(P.tw.pad)>>), LAMBDA r :
             IF r.err # "nil" THEN Ret([r.P EXCEPT !.tw.err = r.err], 0, r.err)
             ELSE Ret([r.P EXCEPT !.tw.pad = 0], 0, "nil"))

tar_WriteHeader(P, size) ==
    With(tar_Flush(P), LAMBDA f :
        IF f.err # "nil" THEN f
        ELSE With(tee_Write(f.P, <<TarHeader(size)>>), LAMBDA r :
                 IF r.err # "nil" THEN Ret([r.P EXCEPT !.tw.err = r.err], 0, r.err)
                 ELSE Ret([r.P EXCEPT !.tw.nb = size,
                                      !.tw.pad = (TarBlockSize - (size % TarBlockSize)) % TarBlockSize],
                          0, "nil")))

tar_Write(P, p) ==
    IF P.tw.err # "nil" THEN Ret(P, 0, P.tw.err)
    ELSE LET overwrite == Len(p) > P.tw.nb
             b == IF overwrite THEN SubSeq(p, 1, P.tw.nb) ELSE p
         IN  With(IF Len(b) > 0 THEN tee_Write(P, b) ELSE Ret(P, 0, "nil"), LAMBDA r :
                 LET Q == [r.P EXCEPT !.tw.nb = @ - r.n]
                 IN  IF r.err # "nil" THEN Ret([Q EXCEPT !.tw.err = r.err], r.n, r.err)
                     ELSE IF overwrite THEN Ret(Q, r.n, "ErrWriteTooLong")
                     ELSE Ret(Q, r.n, "nil"))

\* the two zero blocks of the trailer, written while no write has failed
tar_Trailer(P) ==
    With(tee_Write(P, <<TarZeros(TarBlockSize)>>), LAMBDA a :
        IF a.err # "nil" THEN a
        ELSE tee_Write(a.P, <<TarZeros(TarBlockSize)>>))

tar_Close(P) ==
    IF P.tw.err = "ErrWriteAfterClose" THEN Ret(P, 0, "nil")
    ELSE IF P.tw.err # "nil" THEN Ret(P, 0, P.tw.err)
    ELSE With(tar_Flush(P), LAMBDA f :
             With(IF f.err = "nil" THEN tar_Trailer(f.P) ELSE f, LAMBDA t :
                 Ret([t.P EXCEPT !.tw.err = "ErrWriteAfterClose"], 0, t.err)))

tar_NewWriter == [err |-> "nil", nb |-> 0, pad |-> 0]

\* a counter of the bytes offered instead of the bytes accepted
Mutant_trueSize_Write(P, p) ==
    With(tar_Write(P, p), LAMBDA r :
        Ret([r.P EXCEPT !.counters.trueSize = @ + Len(p)], r.n, r.err))

\* Writer.trueSize: a countingWriter over the tar.Writer.
trueSize_Write(P, p) ==
    With(tar_Write(P, p), LAMBDA r :
        Ret([r.P EXCEPT !.counters.trueSize = @ + r.n], r.n, r.err))

\* ----------------------------------------------------------------- Writer
\* an initial write that forgets it was done
Mutant_doInitialWrite(P) == tar_WriteHeader(P, P.bw.size)

doInitialWrite(P) ==
    With(tar_WriteHeader(P, P.bw.size), LAMBDA r :
        IF r.err = "nil" THEN Ret([r.P EXCEPT !.bw.didInitialWrite = TRUE], 0, "nil")
        ELSE r)

\* a Write on a closed Writer starts the next part
Mutant_Writer_Write(P, p) ==
    IF P.bw.closed THEN With(newChunk(P), LAMBDA c : Ret(c.P, 0, "closed"))
    ELSE IF ~P.bw.didInitialWrite
    THEN With(doInitialWrite(P), LAMBDA i :
             IF i.err # "nil" THEN Ret(i.P, 0, i.err)
             ELSE trueSize_Write(i.P, p))
    ELSE trueSize_Write(P, p)

Writer_Write(P, p) ==
    IF ~P.bw.didInitialWrite
    THEN With(doInitialWrite(P), LAMBDA i :
             IF i.err # "nil" THEN Ret(i.P, 0, i.err)
             ELSE trueSize_Write(i.P, p))
    ELSE trueSize_Write(P, p)

\* One stage of Writer.Close: the stage's close is called and its error, if
\* any, is appended to errors (here with the name of the stage).
CloseStage(s, stage, r) ==
    [P |-> r.P,
     errors |-> IF r.err # "nil" THEN Append(s.errors, <<stage, r.err>>) ELSE s.errors]

Called(P, stage) == [P EXCEPT !.trace = Append(@, <<"stage", stage>>)]

\* the last error instead of the first
Mutant_FirstError(errors) == IF Len(errors) > 0 THEN errors[Len(errors)][2] ELSE "nil"

FirstError(errors) == IF Len(errors) > 0 THEN errors[1][2] ELSE "nil"

\* the four closes and the size check of Writer.Close
Writer_CloseStages(P) ==
    With(CloseStage([P |-> P, errors |-> <<>>], "tar", tar_Close(Called(P, "tar"))), LAMBDA s1 :
    With(CloseStage(s1, "gz", gzip_Close(Called(s1.P, "gz"))), LAMBDA s2 :
    With(CloseStage(s2, "aes", aesCbcWriter_Close(Called(s2.P, "aes"))), LAMBDA s3 :
    With(CloseStage(s3, "cw", chunkWriter_Close(Called(s3.P, "cw"))), LAMBDA s4 :
        [P |-> s4.P,
         errors |-> IF s4.P.bw.size # s4.P.counters.trueSize
                    THEN Append(s4.errors, <<"size", "size-mismatch">>)
                    ELSE s4.errors]))))

\* a Close that stays open for a retry when a stage failed
Mutant_Writer_CloseReturn(s) ==
    [P |-> [s.P EXCEPT !.bw.closed = (Len(s.errors) = 0)], n |-> 0,
     err |-> FirstError(s.errors), errors |-> s.errors]

\* the end of Writer.Close: the Writer is closed, the first error returned
Writer_CloseReturn(s) ==
    [P |-> [s.P EXCEPT !.bw.closed = TRUE], n |-> 0,
     err |-> FirstError(s.errors), errors |-> s.errors]

Writer_Close(P) ==
    IF P.bw.closed THEN [P |-> P, n |-> 0, err |-> "already-closed", errors |-> <<>>]
    ELSE Writer_CloseReturn(Writer_CloseStages(P))

\* fmt.Sprintf("%x", digest)
Hex(digest) == <<"hex", digest>>

\* fmt.Sprintf("%x", b) for a slice of bytes given by value: two lowercase
\* digits for every byte, the high half first.
HexDigits == <<"0", "1", "2", "3", "4", "5", "6", "7", "8", "9", "a", "b", "c", "d", "e", "f">>

Sprintf_x(b) ==
    [j \in 1..(2 * Len(b)) |->
        IF j % 2 = 1 THEN HexDigits[(b[(j + 1) \div 2] \div 16) + 1]
                     ELSE HexDigits[(b[j \div 2] % 16) + 1]]

\* ---------------------------------------------------------- certificates
\* The three embedded PEM constants.  Each is one well-formed CERTIFICATE
\* block whose DER is an X.509 certificate with an RSA public key; N names
\* the modulus and k is its length in bytes.
certEc2 ==
    [begin |-> TRUE, type |-> "CERTIFICATE", end |-> TRUE,
     body |-> [wellFormed |-> TRUE, alg |-> "RSA", N |-> <<"modulusCertEc2">>, k |-> 128]]

certEc2Gov ==
    [begin |-> TRUE, type |-> "CERTIFICATE", end |-> TRUE,
     body |-> [wellFormed |-> TRUE, alg |-> "RSA", N |-> <<"modulusCertEc2Gov">>, k |-> 128]]

certEc2CnNorth1 ==
    [begin |-> TRUE, type |-> "CERTIFICATE", end |-> TRUE,
     body |-> [wellFormed |-> TRUE, alg |-> "RSA", N |-> <<"modulusCertEc2CnNorth1">>, k |-> 256]]

NoBlock == [Type |-> "", Bytes |-> <<>>]
NoCertificate == [PublicKey |-> [alg |-> "", N |-> <<>>, k |-> 0]]

\* encoding/pem Decode: the first block of the text, or nil
pem_Decode(pemStr) ==
    IF pemStr.begin /\ pemStr.end
    THEN [Type |-> pemStr.type, Bytes |-> pemStr.body]
    ELSE NoBlock

\* crypto/x509 ParseCertificate
x509_ParseCertificate(der) ==
    IF der.wellFormed
    THEN [cert |-> [PublicKey |-> [alg |-> der.alg, N |-> der.N, k |-> der.k]], err |-> "nil"]
    ELSE [cert |-> NoCertificate, err |-> "x509-parse"]

Mutant_CertificateForEC2Region(region) ==
    LET pemStr == CASE region = "us-gov-west-1" -> certEc2Gov
                    [] OTHER -> certEc2
        block == pem_Decode(pemStr)
    IN  IF block = NoBlock
        THEN [cert |-> NoCertificate, err |-> "unable to parse PEM block"]
        ELSE x509_ParseCertificate(block.Bytes)

CertificateForEC2Region(region) ==
    LET pemStr == CASE region = "us-gov-west-1" -> certEc2Gov
                    [] region = "cn-north-1" -> certEc2CnNorth1
                    [] OTHER -> certEc2
        block == pem_Decode(pemStr)
    IN  IF block = NoBlock
        THEN [cert |-> NoCertificate, err |-> "unable to parse PEM block"]
        ELSE x509_ParseCertificate(block.Bytes)

\* ------------------------------------------------------------ crypto/rsa
\* A private key is named by its modulus N and has k bytes; its public half
\* carries the same N and k.  A nil *rsa.PrivateKey is NilKey.
NilKey == [alg |-> "", N |-> <<>>, k |-> 0]
PublicKey(priv) == [alg |-> "RSA", N |-> priv.N, k |-> priv.k]

\* rsa.GenerateKey(rand.Reader, 1024): a fresh key at every call; rnd is
\* what the random source yields for this call.
\* rand.Reader as rsa.GenerateKey uses it: a negative rnd stands for a read
\* that fails, anything else for the bytes read
rand_Reader_Read(rnd) == IF rnd < 0 THEN "rand-read" ELSE "nil"

rsa_GenerateKey(rnd) == [alg |-> "RSA", N |-> <<"generated", rnd>>, k |-> 1024 \div 8]

\* rsa.EncryptPKCS1v15: a message longer than k - 11 bytes is refused
rsa_EncryptPKCS1v15(pub, msg) ==
    IF Len(msg) > pub.k - 11
    THEN [out |-> <<>>, err |-> "rsa-message-too-long"]
    ELSE [out |-> <<"rsa", pub.N, msg>>, err |-> "nil"]

sha1_Sum(data) == <<"sha1", data>>

\* rsa.SignPKCS1v15 with crypto.SHA1: the 15-byte digest prefix and the
\* 20-byte digest need a key of at least 15 + 20 + 11 bytes
rsa_SignPKCS1v15(priv, hashed) ==
    IF priv.k < 15 + 20 + 11
    THEN [out |-> <<>>, err |-> "rsa-message-too-long-for-key"]
    ELSE [out |-> <<"sig", priv.N, hashed>>, err |-> "nil"]

\* ------------------------------------------------------------- manifest
NoValue == [Algorithm |-> "", Value |-> <<>>]

\* Metadata.toManifest: a manifest struct is kept flat; the fields of
\* Image written by populateManifest keep their lower-case names.
toManifest(md) ==
    [Bundler |-> md.Bundler,
     Architecture |-> md.Architecture,
     Name |-> md.Name,
     User |-> md.AWSAccountID,
     Type |-> IF md.Type = "" THEN "machine" ELSE md.Type,
     digest |-> <<>>, size |-> 0, bundledSize |-> 0, parts |-> <<>>, count |-> 0,
     EC2EncryptedKey |-> NoValue, UserEncryptedKey |-> NoValue,
     EC2EncryptedIV |-> <<>>, UserEncryptedIV |-> <<>>]

\* parts indexed from 1
Mutant_populateManifest(P, m) ==
    [m EXCEPT
        !.digest = Hex(P.sha1),
        !.size = P.counters.trueSize,
        !.bundledSize = P.counters.bundledSize,
        !.parts = @ \o [i \in 1..Len(P.hs) |->
                           [index |-> i,
                            filename |-> P.hs[i].filename,
                            digest |-> Hex(P.hs[i].hash)]],
        !.count = Len(P.hs)]

populateManifest(P, m) ==
    [m EXCEPT
        !.digest = Hex(P.sha1),
        !.size = P.counters.trueSize,
        !.bundledSize = P.counters.bundledSize,
        !.parts = @ \o [i \in 1..Len(P.hs) |->
                           [index |-> i - 1,
                            filename |-> P.hs[i].filename,
                            digest |-> Hex(P.hs[i].hash)]],
        !.count = Len(P.hs)]

\* the raw secret goes to RSA, not its hexadecimal text
Mutant_EncryptSecrets(m, key, iv, region, userKey) ==
    With(CertificateForEC2Region(region), LAMBDA c :
    IF c.err # "nil" THEN [m |-> m, err |-> "unable to get certificate for region"]
    ELSE IF c.cert.PublicKey.alg # "RSA"
    THEN [m |-> m, err |-> "certificate does not contain an RSA key"]
    ELSE
    With(rsa_EncryptPKCS1v15(c.cert.PublicKey, key), LAMBDA e1 :
    IF e1.err # "nil" THEN [m |-> m, err |-> e1.err] ELSE
    With(rsa_EncryptPKCS1v15(userKey, key), LAMBDA e2 :
    IF e2.err # "nil" THEN [m |-> m, err |-> e2.err] ELSE
    With(rsa_EncryptPKCS1v15(c.cert.PublicKey, iv), LAMBDA e3 :
    IF e3.err # "nil" THEN [m |-> m, err |-> e3.err] ELSE
    With(rsa_EncryptPKCS1v15(userKey, iv), LAMBDA e4 :
    IF e4.err # "nil" THEN [m |-> m, err |-> e4.err] ELSE
    [m |-> [m EXCEPT
              !.EC2EncryptedKey = [Algorithm |-> "AES-128-CBC", Value |-> Hex(e1.out)],
              !.UserEncryptedKey = [Algorithm |-> "AES-128-CBC", Value |-> Hex(e2.out)],
              !.EC2EncryptedIV = Hex(e3.out),
              !.UserEncryptedIV = Hex(e4.out)],
     err |-> "nil"])))))

\* manifest.EncryptSecrets: the fields set before an error stay set
EncryptSecrets(m, key, iv, region, userKey) ==
    With(CertificateForEC2Region(region), LAMBDA c :
    IF c.err # "nil" THEN [m |-> m, err |-> "unable to get certificate for region"]
    ELSE IF c.cert.PublicKey.alg # "RSA"
    THEN [m |-> m, err |-> "certificate does not contain an RSA key"]
    ELSE
    With([ec2key |-> c.cert.PublicKey,
          encodedKey |-> Sprintf_x(key),
          encodedIV |-> Sprintf_x(iv)], LAMBDA v :
    With(rsa_EncryptPKCS1v15(v.ec2key, v.encodedKey), LAMBDA e1 :
    IF e1.err # "nil" THEN [m |-> m, err |-> e1.err] ELSE
    With([m EXCEPT !.EC2EncryptedKey =
              [Algorithm |-> "AES-128-CBC", Value |-> Hex(e1.out)]], LAMBDA m1 :
    With(rsa_EncryptPKCS1v15(userKey, v.encodedKey), LAMBDA e2 :
    IF e2.err # "nil" THEN [m |-> m1, err |-> e2.err] ELSE
    With([m1 EXCEPT !.UserEncryptedKey =
              [Algorithm |-> "AES-128-CBC", Value |-> Hex(e2.out)]], LAMBDA m2 :
    With(rsa_EncryptPKCS1v15(v.ec2key, v.encodedIV), LAMBDA e3 :
    IF e3.err # "nil" THEN [m |-> m2, err |-> e3.err] ELSE
    With([m2 EXCEPT !.EC2EncryptedIV = Hex(e3.out)], LAMBDA m3 :
    With(rsa_EncryptPKCS1v15(userKey, v.encodedIV), LAMBDA e4 :
    IF e4.err # "nil" THEN [m |-> m3, err |-> e4.err] ELSE
    [m |-> [m3 EXCEPT !.UserEncryptedIV = Hex(e4.out)], err |-> "nil"])))))))))

\* ---------------------------------------------------------- encoding/xml
\* Encoded XML is a sequence of tokens: a start tag <<"<", name, attrs>>, an
\* end tag <<"</", name>>, character data <<"text", value>>, a comment
\* <<"<!--", text>>.
Elem(name, attrs, content) ==
    << <<"<", name, attrs>> >> \o content \o << <<"</", name>> >>

Text(name, value) == Elem(name, <<>>, << <<"text", value>> >>)

\* a value field with an algorithm attribute
ValueAndAlgorithm(name, v) ==
    Elem(name, <<"algorithm", v.Algorithm>>, << <<"text", v.Value>> >>)

HasDashDash(s) == \E i \in 1..(Len(s) - 1) : s[i] = "-" /\ s[i + 1] = "-"

\* Application: name, version, release, and the comment when it is not empty
EncodeApplication(name, app) ==
    Elem(name, <<>>,
         Text("name", app.Name) \o Text("version", app.Version)
         \o Text("release", app.Release)
         \o (IF Len(app.Comment) = 0 THEN <<>> ELSE << <<"<!--", app.Comment>> >>))

\* manifestMachineConfig; Metadata sets no block device mapping
EncodeMachineConfiguration(m) ==
    Elem("machine_configuration", <<>>, Text("architecture", m.Architecture))

EncodePart(part) ==
    Elem("part", <<"index", part.index>>,
         Text("filename", part.filename)
         \o ValueAndAlgorithm("digest", [Algorithm |-> "SHA1", Value |-> part.digest]))

RECURSIVE EncodeParts(_)
EncodeParts(parts) ==
    IF Len(parts) = 0 THEN <<>>
    ELSE EncodePart(Head(parts)) \o EncodeParts(Tail(parts))

\* manifestImage
EncodeImage(m) ==
    Elem("image", <<>>,
         Text("name", m.Name) \o Text("user", m.User) \o Text("type", m.Type)
         \o ValueAndAlgorithm("digest", [Algorithm |-> "SHA1", Value |-> m.digest])
         \o Text("size", m.size) \o Text("bundled_size", m.bundledSize)
         \o ValueAndAlgorithm("ec2_encrypted_key", m.EC2EncryptedKey)
         \o ValueAndAlgorithm("user_encrypted_key", m.UserEncryptedKey)
         \o Text("ec2_encrypted_iv", m.EC2EncryptedIV)
         \o Text("user_encrypted_iv", m.UserEncryptedIV)
         \o Elem("parts", <<"count", m.count>>, EncodeParts(m.parts)))

Prolog == <<"<?xml version='1.0'?>">>

\* the signed bytes go into the document as character data
Mutant_SignAndMarshal(m, key) ==
    With(EncodeMachineConfiguration(m) \o EncodeImage(m), LAMBDA signedData :
    With(rsa_SignPKCS1v15(key, sha1_Sum(signedData)), LAMBDA s :
    IF s.err # "nil" THEN [bytes |-> <<>>, err |-> s.err]
    ELSE IF HasDashDash(m.Bundler.Comment)
    THEN [bytes |-> <<>>, err |-> "xml: comments must not contain --"]
    ELSE [bytes |-> <<Prolog>> \o
                    Elem("manifest", <<>>,
                         Text("version", "2007-10-10")
                         \o EncodeApplication("bundler", m.Bundler)
                         \o [i \in 1..Len(signedData) |-> <<"escaped", signedData[i]>>]
                         \o Text("signature", Hex(s.out))),
          err |-> "nil"]))

\* manifest.SignAndMarshal
SignAndMarshal(m, key) ==
    With(EncodeMachineConfiguration(m) \o EncodeImage(m), LAMBDA signedData :
    With(rsa_SignPKCS1v15(key, sha1_Sum(signedData)), LAMBDA s :
    IF s.err # "nil" THEN [bytes |-> <<>>, err |-> s.err]
    ELSE IF HasDashDash(m.Bundler.Comment)
    THEN [bytes |-> <<>>, err |-> "xml: comments must not contain --"]
    ELSE [bytes |-> <<Prolog>> \o
                    Elem("manifest", <<>>,
                         Text("version", "2007-10-10")
                         \o EncodeApplication("bundler", m.Bundler)
                         \o signedData
                         \o Text("signature", Hex(s.out))),
          err |-> "nil"]))

\* the file is left open after a short write
Mutant_WriteManifest(P, md, rnd) ==
    With([m |-> populateManifest(P, toManifest(md)),
          userKey |-> IF md.UserKey = NilKey THEN rsa_GenerateKey(rnd) ELSE md.UserKey,
          err |-> IF md.UserKey = NilKey THEN rand_Reader_Read(rnd) ELSE "nil"],
         LAMBDA v :
    IF v.err # "nil"
    THEN [P |-> P, n |-> 0, err |-> v.err, m |-> v.m, bytes |-> <<>>, reached |-> FALSE]
    ELSE
    With(EncryptSecrets(v.m, P.bw.key, P.bw.iv, md.AWSRegion, PublicKey(v.userKey)), LAMBDA e :
    IF e.err # "nil"
    THEN [P |-> P, n |-> 0, err |-> e.err, m |-> e.m, bytes |-> <<>>, reached |-> FALSE]
    ELSE
    With(SignAndMarshal(e.m, v.userKey), LAMBDA s :
    IF s.err # "nil"
    THEN [P |-> P, n |-> 0, err |-> s.err, m |-> e.m, bytes |-> <<>>, reached |-> FALSE]
    ELSE
    With(Sink_WriteBundleFile(P, ManifestName), LAMBDA o :
    IF o.err # "nil"
    THEN [P |-> o.P, n |-> 0, err |-> o.err, m |-> e.m, bytes |-> s.bytes, reached |-> TRUE]
    ELSE
    With(SinkFile_Write(o.P, o.n, s.bytes), LAMBDA w :
    IF w.err # "nil"
    THEN [P |-> SinkFile_Close(w.P, o.n).P, n |-> w.n, err |-> w.err,
          m |-> e.m, bytes |-> s.bytes, reached |-> TRUE]
    ELSE IF w.n < Len(s.bytes)
    THEN [P |-> w.P, n |-> w.n, err |-> "short manifest write",
          m |-> e.m, bytes |-> s.bytes, reached |-> TRUE]
    ELSE
    With(SinkFile_Close(w.P, o.n), LAMBDA c :
    [P |-> c.P, n |-> w.n, err |-> c.err, m |-> e.m, bytes |-> s.bytes,
     reached |-> TRUE]))))))

\* a WriteManifest that opens the manifest file also when it failed before
\* reaching the sink (and leaves the file open after a short write)
Mutant_WriteManifest_Opens(P, md, rnd) ==
    With(Mutant_WriteManifest(P, md, rnd), LAMBDA r :
        IF r.reached THEN r
        ELSE [r EXCEPT !.P = Sink_WriteBundleFile(r.P, ManifestName).P])

\* Metadata.WriteManifest on the Writer's own sink; rnd is what the random
\* source yields if a user key has to be generated.
WriteManifest(P, md, rnd) ==
    With([m |-> populateManifest(P, toManifest(md)),
          userKey |-> IF md.UserKey = NilKey THEN rsa_GenerateKey(rnd) ELSE md.UserKey,
          err |-> IF md.UserKey = NilKey THEN rand_Reader_Read(rnd) ELSE "nil"],
         LAMBDA v :
    IF v.err # "nil"
    THEN [P |-> P, n |-> 0, err |-> v.err, m |-> v.m, bytes |-> <<>>, reached |-> FALSE]
    ELSE
    With(EncryptSecrets(v.m, P.bw.key, P.bw.iv, md.AWSRegion, PublicKey(v.userKey)), LAMBDA e :
    IF e.err # "nil"
    THEN [P |-> P, n |-> 0, err |-> e.err, m |-> e.m, bytes |-> <<>>, reached |-> FALSE]
    ELSE
    With(SignAndMarshal(e.m, v.userKey), LAMBDA s :
    IF s.err # "nil"
    THEN [P |-> P, n |-> 0, err |-> s.err, m |-> e.m, bytes |-> <<>>, reached |-> FALSE]
    ELSE
    With(Sink_WriteBundleFile(P, ManifestName), LAMBDA o :
    IF o.err # "nil"
    THEN [P |-> o.P, n |-> 0, err |-> o.err, m |-> e.m, bytes |-> s.bytes, reached |-> TRUE]
    ELSE
    With(SinkFile_Write(o.P, o.n, s.bytes), LAMBDA w :
    IF w.err # "nil"
    THEN [P |-> SinkFile_Close(w.P, o.n).P, n |-> w.n, err |-> w.err,
          m |-> e.m, bytes |-> s.bytes, reached |-> TRUE]
    ELSE IF w.n < Len(s.bytes)
    THEN [P |-> SinkFile_Close(w.P, o.n).P, n |-> w.n, err |-> "short manifest write",
          m |-> e.m, bytes |-> s.bytes, reached |-> TRUE]
    ELSE
    With(SinkFile_Close(w.P, o.n), LAMBDA c :
    [P |-> c.P, n |-> w.n, err |-> c.err, m |-> e.m, bytes |-> s.bytes,
     reached |-> TRUE]))))))

\* NewWriter: the processing chain, built bottom-up.
NewWriter(size, emit, key, iv) ==
    [bw |-> [size |-> size, didInitialWrite |-> FALSE, closed |-> FALSE,
             key |-> key, iv |-> iv],
     tw |-> tar_NewWriter,
     sha1 |-> <<>>,
     gz |-> gzip_NewWriterLevel(emit),
     aes |-> newAes128CbcWriter,
     counters |-> [bundledSize |-> 0, trueSize |-> 0],
     cw |-> newChunkWriter(ChunkSize),
     hsw |-> NoWriter,
     hs |-> <<>>,
     sink |-> [files |-> <<>>, calls |-> 0],
     trace |-> <<>>]

\* --------------------------------------------------------------- the runs
Faults ==
    {[at |-> {}, short |-> FALSE], [at |-> {}, short |-> TRUE]}
    \cup {[at |-> {k}, short |-> FALSE] : k \in 1..MaxFailAt}
Sizes == {0, MaxSize}
Emits == {0, MaxEmit}

\* rand.Read fills the 16 bytes of the key and of the IV
KeyLen == 16
KeyBytes(s) == [i \in 1..KeyLen |-> (s * i * i) % 256]
Secrets ==
    {[key |-> KeyBytes(3), iv |-> KeyBytes(7)], [key |-> KeyBytes(5), iv |-> KeyBytes(11)]}
\* The chain does not read the secrets (ciphertext is named by position), so
\* a Writer under Write and Close carries one draw; the manifest functions
\* are run over all of Secrets.
Secret0 == [key |-> KeyBytes(3), iv |-> KeyBytes(7)]

\* a caller's RSA private key of k bytes
UserKey(k) == [alg |-> "RSA", N |-> <<"user", k>>, k |-> k]

Md(region, userKey, comment) ==
    [Name |-> "image", Architecture |-> "x86_64", AWSAccountID |-> "123456789012",
     AWSRegion |-> region, UserKey |-> userKey, Type |-> "",
     Bundler |-> [Name |-> "ec2-ami-tools", Version |-> "1.5", Release |-> "7",
                  Comment |-> comment]]

\* what WriteManifest is called with: no user key, or a user key too short
\* for a SHA-1 signature
Metadatas == {Md("us-east-1", NilKey, <<>>), Md("cn-north-1", UserKey(44), <<>>)}

NoCall == [op |-> "none", len |-> 0, n |-> 0, err |-> "nil"]

Caller0 ==
    [passed |-> <<>>, writes |-> 0, closes |-> 0, manifests |-> 0,
     last |-> NoCall, closeErr |-> "none", errors |-> <<>>,
     manifest |-> <<>>, early |-> FALSE, reached |-> 0, files |-> <<>>,
     md |-> <<>>, doc |-> <<>>]

InitWith(P, m) ==
    /\ mode = m
    /\ bw = P.bw /\ tw = P.tw /\ sha1 = P.sha1 /\ gz = P.gz /\ aes = P.aes
    /\ counters = P.counters /\ cw = P.cw /\ hsw = P.hsw /\ hs = P.hs
    /\ sink = P.sink /\ trace = P.trace
    /\ caller = Caller0
    /\ mutex = 0
    /\ goroutines = <<>>

Init ==
    /\ faults \in Faults
    /\ \E size \in Sizes, emit \in Emits :
           InitWith(NewWriter(size, emit, Secret0.key, Secret0.iv), "bundle")

Calls == caller.writes + caller.closes + caller.manifests

\* The caller passes the next len bytes of its input.
Payload(len) == [i \in 1..len |-> <<"in", Len(caller.passed) + i>>]

Write(p) ==
    /\ mode = "bundle"
    /\ Calls < MaxCalls
    /\ LET r == Writer_Write(Cur, p)
       IN  /\ Commit(r.P)
           /\ caller' = [caller EXCEPT
                  !.writes = @ + 1,
                  !.passed = IF bw.closed THEN @ ELSE @ \o p,
                  !.last = [op |-> "Write", len |-> Len(p), n |-> r.n, err |-> r.err]]
    /\ UNCHANGED <<mode, faults, mutex, goroutines>>

Close ==
    /\ mode = "bundle"
    /\ Calls < MaxCalls
    /\ LET r == Writer_Close(Cur)
       IN  /\ Commit(r.P)
           /\ caller' = [caller EXCEPT
                  !.closes = @ + 1,
                  !.closeErr = IF bw.closed THEN @ ELSE r.err,
                  !.errors = IF bw.closed THEN @ ELSE r.errors,
                  !.last = [op |-> "Close", len |-> 0, n |-> 0, err |-> r.err]]
    /\ UNCHANGED <<mode, faults, mutex, goroutines>>

\* the manifest file is recorded among the parts
Mutant_Manifest(md) ==
    /\ mode = "bundle"
    /\ Calls < MaxCalls
    /\ LET r == WriteManifest(Cur, md, caller.manifests)
       IN  /\ Commit([r.P EXCEPT !.hs = IF r.reached
                                          THEN Append(@, [filename |-> ManifestName,
                                                          hash |-> r.bytes])
                                          ELSE @])
           /\ caller' = [caller EXCEPT
                  !.manifests = @ + 1,
                  !.manifest = r.m,
                  !.early = @ \/ ~bw.closed,
                  !.reached = IF r.reached THEN @ + 1 ELSE @,
                  !.md = md,
                  !.doc = r.bytes,
                  !.last = [op |-> "WriteManifest", len |-> 0, n |-> r.n, err |-> r.err]]
    /\ UNCHANGED <<mode, faults, mutex, goroutines>>

Manifest(md) ==
    /\ mode = "bundle"
    /\ Calls < MaxCalls
    /\ LET r == WriteManifest(Cur, md, caller.manifests)
       IN  /\ Commit(r.P)
           /\ caller' = [caller EXCEPT
                  !.manifests = @ + 1,
                  !.manifest = r.m,
                  !.early = @ \/ ~bw.closed,
                  !.reached = IF r.reached THEN @ + 1 ELSE @,
                  !.md = md,
                  !.doc = r.bytes,
                  !.last = [op |-> "WriteManifest", len |-> 0, n |-> r.n, err |-> r.err]]
    /\ UNCHANGED <<mode, faults, mutex, goroutines>>

Next ==
    \/ \E len \in 0..MaxWriteLen : Write(Payload(len))
    \/ Close
    \/ \E md \in Metadatas : Manifest(md)

Spec == Init /\ [][Next]_vars

\* A chunkWriter used on its own, as in TestChunkWriter, over a sink that
\* never fails: newChunkWriter(sink, "test", chunkSize), Writes, one Close.
InitChunks ==
    /\ faults = [at |-> {}, short |-> FALSE]
    /\ \E chunkSize \in 1..MaxChunk :
          InitWith([NewWriter(0, 0, Secret0.key, Secret0.iv) EXCEPT !.cw = newChunkWriter(chunkSize)], "chunks")

ChunkWrite(p) ==
    /\ mode = "chunks"
    /\ caller.writes < MaxChunkWrites
    /\ caller.closes = 0
    /\ LET r == chunkWriter_Write(Cur, p)
       IN  /\ Commit(r.P)
           /\ caller' = [caller EXCEPT
                  !.writes = @ + 1,
                  !.passed = @ \o p,
                  !.last = [op |-> "Write", len |-> Len(p), n |-> r.n, err |-> r.err]]
    /\ UNCHANGED <<mode, faults, mutex, goroutines>>

ChunkClose ==
    /\ mode = "chunks"
    /\ caller.closes = 0
    /\ LET r == chunkWriter_Close(Cur)
       IN  /\ Commit(r.P)
           /\ caller' = [caller EXCEPT
                  !.closes = @ + 1,
                  !.closeErr = r.err,
                  !.last = [op |-> "Close", len |-> 0, n |-> 0, err |-> r.err]]
    /\ UNCHANGED <<mode, faults, mutex, goroutines>>

NextChunks ==
    \/ \E len \in 0..MaxChunkWriteLen : ChunkWrite(Payload(len))
    \/ ChunkClose

SpecChunks == InitChunks /\ [][NextChunks]_vars

\* A hashingSink used on its own, as in TestHashingSink: files are opened,
\* written and closed one after another through newHashingSink(sink).  The
\* caller keeps, per file, the bytes it offered and what Close returned.
FileName(k) == <<"file", k>>

InitHashing ==
    /\ faults \in Faults
    /\ InitWith(NewWriter(0, 0, Secret0.key, Secret0.iv), "hashing")

HsOpen ==
    /\ mode = "hashing"
    /\ hsw = NoWriter
    /\ Len(caller.files) < MaxFiles
    /\ LET r == hashingSink_WriteBundleFile(Cur, FileName(Len(caller.files)))
       IN  /\ Commit(r.P)
           /\ caller' = [caller EXCEPT
                  !.files = IF r.err = "nil"
                            THEN Append(@, [name |-> FileName(Len(caller.files)),
                                            data |-> <<>>, closed |-> FALSE, err |-> "none"])
                            ELSE @,
                  !.last = [op |-> "WriteBundleFile", len |-> 0, n |-> 0, err |-> r.err]]
    /\ UNCHANGED <<mode, faults, mutex, goroutines>>

HsWrite(p) ==
    /\ mode = "hashing"
    /\ hsw # NoWriter
    /\ caller.writes < MaxFileWrites
    /\ LET r == hashingSinkWriter_Write(Cur, p)
       IN  /\ Commit(r.P)
           /\ caller' = [caller EXCEPT
                  !.writes = @ + 1,
                  !.passed = @ \o p,
                  !.files[Len(caller.files)].data = @ \o p,
                  !.last = [op |-> "Write", len |-> Len(p), n |-> r.n, err |-> r.err]]
    /\ UNCHANGED <<mode, faults, mutex, goroutines>>

HsClose ==
    /\ mode = "hashing"
    /\ hsw # NoWriter
    /\ LET r == hashingSinkWriter_Close(Cur)
       IN  /\ Commit([r.P EXCEPT !.hsw = NoWriter])
           /\ caller' = [caller EXCEPT
                  !.closes = @ + 1,
                  !.files[Len(caller.files)].closed = TRUE,
                  !.files[Len(caller.files)].err = r.err,
                  !.last = [op |-> "Close", len |-> 0, n |-> 0, err |-> r.err]]
    /\ UNCHANGED <<mode, faults, mutex, goroutines>>

NextHashing ==
    \/ HsOpen
    \/ \E len \in 0..MaxWriteLen : HsWrite(Payload(len))
    \/ HsClose

SpecHashing == InitHashing /\ [][NextHashing]_vars

\* The functions of manifest.go and certificates.go, each applied to inputs
\* drawn at the start: a region, a user key, a bundler comment, the secrets
\* and a Writer that closed with a number of parts.
MaxParts == 2
Regions ==
    {"us-east-1", "us-west-2", "us-future-region-47", "atlantis-4", "",
     "us-gov-west-1", "cn-north-1", "us-gov-east-1", "cn-northwest-1"}
UserKeys == {UserKey(128), UserKey(44), UserKey(32)}
Comments == {<<>>, <<"o", "k">>, <<"a", "-", "-", "b">>}

NoResult == [err |-> "none"]

\* a Writer whose hashingSink recorded the given number of parts
ClosedWriter(s, parts) ==
    [NewWriter(MaxSize, 0, s.key, s.iv) EXCEPT
        !.bw.closed = TRUE,
        !.sha1 = <<"tar">>,
        !.counters = [bundledSize |-> 2 * BlockSize, trueSize |-> MaxSize],
        !.hs = [i \in 1..parts |-> [filename |-> PartName(i - 1), hash |-> <<"part", i>>]]]

InitManifest ==
    /\ faults = [at |-> {}, short |-> FALSE]
    /\ mutex = 0
    /\ goroutines = <<>>
    /\ \E s \in Secrets, parts \in 0..MaxParts :
          /\ mode = "manifest"
          /\ LET P == ClosedWriter(s, parts)
             IN  /\ bw = P.bw /\ tw = P.tw /\ sha1 = P.sha1 /\ gz = P.gz /\ aes = P.aes
                 /\ counters = P.counters /\ cw = P.cw /\ hsw = P.hsw /\ hs = P.hs
                 /\ sink = P.sink /\ trace = P.trace
                 /\ \E region \in Regions, userKey \in UserKeys, comment \in Comments :
                       caller = [md |-> Md(region, userKey, comment),
                                 m |-> populateManifest(P, toManifest(Md(region, userKey, comment))),
                                 lookup |-> NoResult,
                                 encrypt |-> NoResult,
                                 sign |-> NoResult]

LookUp ==
    /\ mode = "manifest"
    /\ caller.lookup.err = "none"
    /\ caller' = [caller EXCEPT !.lookup = CertificateForEC2Region(caller.md.AWSRegion)]
    /\ UNCHANGED <<mode, bw, tw, sha1, gz, aes, counters, cw, hsw, hs, sink, trace, faults,
                 mutex, goroutines>>

Encrypt ==
    /\ mode = "manifest"
    /\ caller.encrypt.err = "none"
    /\ LET r == EncryptSecrets(caller.m, bw.key, bw.iv, caller.md.AWSRegion,
                               PublicKey(caller.md.UserKey))
       IN  caller' = [caller EXCEPT !.m = r.m, !.encrypt = [err |-> r.err, before |-> caller.m]]
    /\ UNCHANGED <<mode, bw, tw, sha1, gz, aes, counters, cw, hsw, hs, sink, trace, faults,
                 mutex, goroutines>>

Sign ==
    /\ mode = "manifest"
    /\ caller.sign.err = "none"
    /\ LET r == SignAndMarshal(caller.m, caller.md.UserKey)
       IN  caller' = [caller EXCEPT !.sign = [err |-> r.err, bytes |-> r.bytes, m |-> caller.m]]
    /\ UNCHANGED <<mode, bw, tw, sha1, gz, aes, counters, cw, hsw, hs, sink, trace, faults,
                 mutex, goroutines>>

NextManifest ==
    \/ LookUp
    \/ Encrypt
    \/ Sign

SpecManifest == InitManifest /\ [][NextManifest]_vars

\* The same chunkWriter over a sink whose calls may fail.
InitChunkFaults ==
    /\ faults \in {f \in Faults : ~f.short}
    /\ \E chunkSize \in 1..MaxChunk :
          InitWith([NewWriter(0, 0, Secret0.key, Secret0.iv) EXCEPT !.cw = newChunkWriter(chunkSize)], "chunks")

SpecChunkFaults == InitChunkFaults /\ [][NextChunks]_vars

\* An aesCbcWriter used on its own: newAes128CbcWriter(w, key, iv), then
\* Writes and Closes in any order.  The io.Writer below it is the counting
\* writer over the chunk writer, over a sink whose calls may fail.
MaxAesWriteLen == 32
MaxAesCalls == 3
AesWriteLens == {0, 1, 7, 9, BlockSize, BlockSize + 1, MaxAesWriteLen}

InitAes ==
    /\ faults \in {f \in Faults : ~f.short}
    /\ InitWith(NewWriter(0, 0, Secret0.key, Secret0.iv), "aes")

AesWrite(p) ==
    /\ mode = "aes"
    /\ Calls < MaxAesCalls
    /\ LET r == aesCbcWriter_Write(Cur, p)
       IN  /\ Commit(r.P)
           /\ caller' = [caller EXCEPT
                  !.writes = @ + 1,
                  !.passed = IF aes.cbc THEN @ \o p ELSE @,
                  !.last = [op |-> "Write", len |-> Len(p), n |-> r.n, err |-> r.err]]
    /\ UNCHANGED <<mode, faults, mutex, goroutines>>

AesClose ==
    /\ mode = "aes"
    /\ Calls < MaxAesCalls
    /\ LET r == aesCbcWriter_Close(Cur)
       IN  /\ Commit(r.P)
           /\ caller' = [caller EXCEPT
                  !.closes = @ + 1,
                  !.closeErr = IF caller.closes = 0 THEN r.err ELSE @,
                  !.last = [op |-> "Close", len |-> 0, n |-> 0, err |-> r.err]]
    /\ UNCHANGED <<mode, faults, mutex, goroutines>>

NextAes ==
    \/ \E len \in AesWriteLens : AesWrite(Payload(len))
    \/ AesClose

SpecAes == InitAes /\ [][NextAes]_vars

\* Two goroutines using one hashingSink at once: each opens its own file
\* through the hashing sink, may write to it, and closes it.  A call to the
\* sink below is one step; hashingSinkWriter.Close is taken statement by
\* statement, and its append as the read of hs.files and the store of the
\* longer slice.
Goroutines == {1, 2}
MaxGoWrites == 1

Goroutine0 ==
    [pc |-> "new", hsw |-> NoWriter, writes |-> 0,
     file |-> [filename |-> <<>>, hash |-> <<>>], files |-> <<>>, err |-> "none"]

\* a lock that never waits
Mutant_sync_Mutex_Lock(m) == TRUE

\* sync.Mutex.Lock returns once the mutex is unlocked
sync_Mutex_Lock(m) == m = 0

InitLocking ==
    /\ faults \in {f \in Faults : ~f.short}
    /\ InitWith(NewWriter(0, 0, Secret0.key, Secret0.iv), "locking")

GoStart ==
    /\ mode = "locking"
    /\ goroutines = <<>>
    /\ goroutines' = [g \in Goroutines |-> Goroutine0]
    /\ UNCHANGED <<mode, bw, tw, sha1, gz, aes, counters, cw, hsw, hs, sink, trace, faults,
                   caller, mutex>>

At(g, pc) == mode = "locking" /\ goroutines # <<>> /\ goroutines[g].pc = pc

GoOpen(g) ==
    /\ At(g, "new")
    /\ LET r == hashingSink_WriteBundleFile(Cur, FileName(g))
       IN  /\ Commit([r.P EXCEPT !.hsw = NoWriter])
           /\ goroutines' = [goroutines EXCEPT
                  ![g].pc = IF r.err = "nil" THEN "file" ELSE "done",
                  ![g].hsw = IF r.err = "nil" THEN r.P.hsw ELSE @,
                  ![g].err = r.err]
    /\ UNCHANGED <<mode, faults, caller, mutex>>

GoWrite(g, p) ==
    /\ At(g, "file")
    /\ goroutines[g].writes < MaxGoWrites
    /\ LET r == hashingSinkWriter_Write([Cur EXCEPT !.hsw = goroutines[g].hsw], p)
       IN  /\ Commit([r.P EXCEPT !.hsw = NoWriter])
           /\ goroutines' = [goroutines EXCEPT
                  ![g].writes = @ + 1,
                  ![g].hsw = r.P.hsw]
    /\ caller' = [caller EXCEPT !.writes = @ + 1, !.passed = @ \o p]
    /\ UNCHANGED <<mode, faults, mutex>>

\* Close, first statement: file := hashingSinkFile{hsw.name, hsw.h.Sum(nil)}
GoSum(g) ==
    /\ At(g, "file")
    /\ goroutines' = [goroutines EXCEPT
           ![g].pc = "lock",
           ![g].file = [filename |-> goroutines[g].hsw.name, hash |-> goroutines[g].hsw.h]]
    /\ UNCHANGED <<mode, bw, tw, sha1, gz, aes, counters, cw, hsw, hs, sink, trace, faults,
                   caller, mutex>>

\* hsw.sink.Lock()
GoLock(g) ==
    /\ At(g, "lock")
    /\ sync_Mutex_Lock(mutex)
    /\ mutex' = g
    /\ goroutines' = [goroutines EXCEPT ![g].pc = "read"]
    /\ UNCHANGED <<mode, bw, tw, sha1, gz, aes, counters, cw, hsw, hs, sink, trace, faults,
                   caller>>

\* append(hsw.sink.files, file) reads the slice
GoAppendRead(g) ==
    /\ At(g, "read")
    /\ goroutines' = [goroutines EXCEPT ![g].pc = "store", ![g].files = hs]
    /\ UNCHANGED <<mode, bw, tw, sha1, gz, aes, counters, cw, hsw, hs, sink, trace, faults,
                   caller, mutex>>

\* hsw.sink.files = the slice read, with file at its end
GoAppendStore(g) ==
    /\ At(g, "store")
    /\ hs' = Append(goroutines[g].files, goroutines[g].file)
    /\ goroutines' = [goroutines EXCEPT ![g].pc = "unlock"]
    /\ UNCHANGED <<mode, bw, tw, sha1, gz, aes, counters, cw, hsw, sink, trace, faults,
                   caller, mutex>>

\* hsw.sink.Unlock()
GoUnlock(g) ==
    /\ At(g, "unlock")
    /\ mutex' = 0
    /\ goroutines' = [goroutines EXCEPT ![g].pc = "delegate"]
    /\ UNCHANGED <<mode, bw, tw, sha1, gz, aes, counters, cw, hsw, hs, sink, trace, faults,
                   caller>>

\* return hsw.w.Close()
GoDelegate(g) ==
    /\ At(g, "delegate")
    /\ LET r == SinkFile_Close(Cur, goroutines[g].hsw.w)
       IN  /\ Commit(r.P)
           /\ goroutines' = [goroutines EXCEPT ![g].pc = "done", ![g].err = r.err]
    /\ caller' = [caller EXCEPT !.closes = @ + 1]
    /\ UNCHANGED <<mode, faults, mutex>>

NextLocking ==
    \/ GoStart
    \/ \E g \in Goroutines :
          \/ GoOpen(g)
          \/ \E len \in 0..MaxWriteLen : GoWrite(g, Payload(len))
          \/ GoSum(g)
          \/ GoLock(g)
          \/ GoAppendRead(g)
          \/ GoAppendStore(g)
          \/ GoUnlock(g)
          \/ GoDelegate(g)

SpecLocking == InitLocking /\ [][NextLocking]_vars

\* WriteManifest called on a closed Writer with metadata of every kind: a
\* region with a certificate or without, no user key (one is generated, if
\* the random source works) or a user key, long enough or too short for the
\* encryptions or for the signature.
MaxWmCalls == 1
WmRegions == {"us-east-1", "cn-north-1", "atlantis-4"}
WmUserKeys == {NilKey} \cup UserKeys
Rnds == {-1, 0}

InitWm ==
    /\ faults \in {f \in Faults : ~f.short}
    /\ \E parts \in 0..MaxParts :
          /\ mode = "wm"
          /\ LET P == ClosedWriter(Secret0, parts)
             IN  /\ bw = P.bw /\ tw = P.tw /\ sha1 = P.sha1 /\ gz = P.gz /\ aes = P.aes
                 /\ counters = P.counters /\ cw = P.cw /\ hsw = P.hsw /\ hs = P.hs
                 /\ sink = P.sink /\ trace = P.trace
    /\ caller = [manifests |-> 0, md |-> Md("", NilKey, <<>>), rnd |-> 0,
                 last |-> NoCall, reached |-> FALSE]
    /\ mutex = 0
    /\ goroutines = <<>>

WmCall(md, rnd) ==
    /\ mode = "wm"
    /\ caller.manifests < MaxWmCalls
    /\ LET r == WriteManifest(Cur, md, rnd)
       IN  /\ Commit(r.P)
           /\ caller' = [manifests |-> caller.manifests + 1, md |-> md, rnd |-> rnd,
                         last |-> [op |-> "WriteManifest", len |-> 0, n |-> r.n, err |-> r.err],
                         reached |-> r.reached]
    /\ UNCHANGED <<mode, faults, mutex, goroutines>>

WmMetadatas == {Md(region, userKey, <<>>) : region \in WmRegions, userKey \in WmUserKeys}

NextWm ==
    \E md \in WmMetadatas, rnd \in Rnds : WmCall(md, rnd)

SpecWm == InitWm /\ [][NextWm]_vars

\* chunkWriter.Write taken one turn of its loop at a time, over a sink that
\* works or whose WriteBundleFile fails on every call.  The sink's calls are
\* numbered within one turn here (a turn makes the open its first call as
\* long as no part is open), and cw.current.index is an int that wraps
\* around, of IntBits bits.
IntBits == 4
LoopFaults == {[at |-> {}, short |-> FALSE], [at |-> {1}, short |-> FALSE]}

\* one turn of the loop of chunkWriter.Write: p is what is left to write, n
\* the count so far; ret tells that the turn ended in a return
chunkWriter_Turn(P, p, n) ==
    LET bytes == bytesRemainingInChunk(P)
    IN  IF bytes = 0
        THEN [P |-> newChunk(P).P, p |-> p, n |-> n, err |-> "nil", ret |-> FALSE]
        ELSE LET b == Min(bytes, Len(p))
                 now == SubSeq(p, 1, b)
                 later == SubSeq(p, b + 1, Len(p))
             IN  With(hashingSinkWriter_Write(P, now), LAMBDA r :
                     [P |-> [r.P EXCEPT !.cw.offset = @ + r.n], p |-> later,
                      n |-> n + r.n, err |-> r.err, ret |-> r.err # "nil"])

InitLoop ==
    /\ faults \in LoopFaults
    /\ \E chunkSize \in 1..MaxChunk :
          LET P == [NewWriter(0, 0, Secret0.key, Secret0.iv) EXCEPT !.cw = newChunkWriter(chunkSize)]
          IN  /\ bw = P.bw /\ tw = P.tw /\ sha1 = P.sha1 /\ gz = P.gz /\ aes = P.aes
              /\ counters = P.counters /\ cw = P.cw /\ hsw = P.hsw /\ hs = P.hs
              /\ sink = P.sink /\ trace = P.trace
    /\ mode = "loop"
    /\ caller = [pc |-> "idle", p |-> <<>>, n |-> 0, writes |-> 0, passed |-> <<>>,
                 last |-> NoCall]
    /\ mutex = 0
    /\ goroutines = <<>>

\* the caller calls Write(p)
LoopWrite(p) ==
    /\ mode = "loop"
    /\ caller.pc = "idle"
    /\ caller.writes < MaxChunkWrites
    /\ caller' = [caller EXCEPT !.pc = "for", !.p = p, !.n = 0,
                                !.writes = @ + 1, !.passed = @ \o p]
    /\ UNCHANGED <<mode, bw, tw, sha1, gz, aes, counters, cw, hsw, hs, sink, trace, faults,
                   mutex, goroutines>>

\* for len(p) > 0 { ... }
LoopTurn ==
    /\ mode = "loop"
    /\ caller.pc = "for"
    /\ Len(caller.p) > 0
    /\ LET t == chunkWriter_Turn(Cur, caller.p, caller.n)
       IN  /\ Commit([t.P EXCEPT !.sink.calls = 0,
                                 !.trace = <<>>,
                                 !.cw.index = @ % (2 ^ IntBits)])
           /\ caller' = [caller EXCEPT
                  !.pc = IF t.ret THEN "idle" ELSE "for",
                  !.p = IF t.ret THEN <<>> ELSE t.p,
                  !.n = t.n,
                  !.last = IF t.ret
                           THEN [op |-> "Write", len |-> 0, n |-> t.n, err |-> t.err]
                           ELSE @]
    /\ UNCHANGED <<mode, faults, mutex, goroutines>>

\* return n, nil
LoopReturn ==
    /\ mode = "loop"
    /\ caller.pc = "for"
    /\ Len(caller.p) = 0
    /\ caller' = [caller EXCEPT
           !.pc = "idle",
           !.last = [op |-> "Write", len |-> 0, n |-> caller.n, err |-> "nil"]]
    /\ UNCHANGED <<mode, bw, tw, sha1, gz, aes, counters, cw, hsw, hs, sink, trace, faults,
                   mutex, goroutines>>

NextLoop ==
    \/ \E len \in 0..MaxChunkWriteLen : LoopWrite(Payload(len))
    \/ LoopTurn
    \/ LoopReturn

\* a Write that was called goes on running
SpecLoop == InitLoop /\ [][NextLoop]_vars /\ WF_vars(LoopTurn) /\ WF_vars(LoopReturn)

\* An s3SinkFile and the goroutine that uploads it.  WriteBundleFile makes
\* an io.Pipe and a channel of capacity 1 and starts the goroutine, which
\* runs uploader.Upload on the read half of the pipe; the caller writes to
\* the write half and closes it.  A Write on the pipe returns once the reader
\* has taken its bytes, or at once with an error if the write half is
\* closed; nothing closes the read half.  Upload reads until EOF; it may fail
\* at any moment, and then reads no more.
MaxS3Writes == 2
MaxS3Closes == 2
ErrCCap == 1

io_Pipe == [writing |-> FALSE, data |-> <<>>, wclosed |-> FALSE]
make_chan == [buf |-> <<>>, closed |-> FALSE]

\* a receive that does not wait
Mutant_chan_CanRecv(c) == TRUE

\* <-c goes on when a value is buffered or the channel is closed
chan_CanRecv(c) == Len(c.buf) > 0 \/ c.closed

\* the value received: the oldest buffered, else the zero value
chan_Recv(c) == IF Len(c.buf) > 0 THEN Head(c.buf) ELSE "nil"

\* c <- v goes on when the buffer has room
chan_CanSend(c) == Len(c.buf) < ErrCCap

InitS3 ==
    /\ mode = "s3"
    /\ faults = [at |-> {}, short |-> FALSE]
    /\ LET P == NewWriter(0, 0, Secret0.key, Secret0.iv)
       IN  /\ bw = P.bw /\ tw = P.tw /\ sha1 = P.sha1 /\ gz = P.gz /\ aes = P.aes
           /\ counters = P.counters /\ cw = P.cw /\ hsw = P.hsw /\ hs = P.hs
           /\ trace = P.trace
    /\ sink = [opened |-> FALSE, pipe |-> io_Pipe, errC |-> make_chan, uploaded |-> <<>>]
    /\ caller = [pc |-> "idle", writes |-> 0, closes |-> 0, passed |-> <<>>,
                 last |-> NoCall, closeErr |-> "none"]
    /\ mutex = 0
    /\ goroutines = <<>>

S3Frame == UNCHANGED <<mode, bw, tw, sha1, gz, aes, counters, cw, hsw, hs, trace, faults, mutex>>

\* S3Sink.WriteBundleFile
S3Open ==
    /\ mode = "s3"
    /\ ~sink.opened
    /\ sink' = [sink EXCEPT !.opened = TRUE]
    /\ goroutines' = <<[pc |-> "upload", err |-> "nil"]>>
    /\ caller' = [caller EXCEPT !.last = [op |-> "WriteBundleFile", len |-> 0, n |-> 0, err |-> "nil"]]
    /\ S3Frame

\* s3SinkFile.Write: f.pipe.Write(p) is called
S3Write(p) ==
    /\ mode = "s3"
    /\ sink.opened
    /\ caller.pc = "idle"
    /\ caller.writes < MaxS3Writes
    /\ IF sink.pipe.wclosed
       THEN /\ caller' = [caller EXCEPT
                   !.writes = @ + 1,
                   !.last = [op |-> "Write", len |-> Len(p), n |-> 0, err |-> "ErrClosedPipe"]]
            /\ UNCHANGED sink
       ELSE /\ sink' = [sink EXCEPT !.pipe.writing = TRUE, !.pipe.data = p]
            /\ caller' = [caller EXCEPT
                   !.pc = "write",
                   !.writes = @ + 1,
                   !.passed = @ \o p,
                   !.last = [op |-> "Write", len |-> Len(p), n |-> 0, err |-> "none"]]
    /\ UNCHANGED goroutines
    /\ S3Frame

\* f.pipe.Write(p) returns: the reader has taken the bytes
S3WriteReturn ==
    /\ mode = "s3"
    /\ caller.pc = "write"
    /\ ~sink.pipe.writing
    /\ caller' = [caller EXCEPT !.pc = "idle", !.last.n = caller.last.len, !.last.err = "nil"]
    /\ UNCHANGED <<sink, goroutines>>
    /\ S3Frame

\* s3SinkFile.Close, first statement: f.pipe.Close(), which returns nil
S3Close ==
    /\ mode = "s3"
    /\ sink.opened
    /\ caller.pc = "idle"
    /\ caller.closes < MaxS3Closes
    /\ sink' = [sink EXCEPT !.pipe.wclosed = TRUE]
    /\ caller' = [caller EXCEPT !.pc = "recv"]
    /\ UNCHANGED goroutines
    /\ S3Frame

\* s3SinkFile.Close: backgroundErr := <-f.completion, and the return
S3CloseReturn ==
    /\ mode = "s3"
    /\ caller.pc = "recv"
    /\ chan_CanRecv(sink.errC)
    /\ sink' = [sink EXCEPT !.errC.buf = IF Len(@) > 0 THEN Tail(@) ELSE @]
    /\ caller' = [caller EXCEPT
           !.pc = "idle",
           !.closes = @ + 1,
           !.closeErr = IF caller.closes = 0 THEN chan_Recv(sink.errC) ELSE @,
           !.last = [op |-> "Close", len |-> 0, n |-> 0, err |-> chan_Recv(sink.errC)]]
    /\ UNCHANGED goroutines
    /\ S3Frame

Uploading == mode = "s3" /\ goroutines # <<>> /\ goroutines[1].pc = "upload"

\* Upload reads the body: it takes what a Write is offering
UploadRead ==
    /\ Uploading
    /\ sink.pipe.writing
    /\ sink' = [sink EXCEPT !.pipe.writing = FALSE, !.pipe.data = <<>>,
                            !.uploaded = @ \o sink.pipe.data]
    /\ UNCHANGED <<caller, goroutines>>
    /\ S3Frame

\* Upload reads EOF, the write half being closed, and returns no error
UploadEOF ==
    /\ Uploading
    /\ ~sink.pipe.writing /\ sink.pipe.wclosed
    /\ goroutines' = <<[pc |-> "report", err |-> "nil"]>>
    /\ UNCHANGED <<caller, sink>>
    /\ S3Frame

\* Upload fails and returns its error
UploadFail ==
    /\ Uploading
    /\ goroutines' = <<[pc |-> "report", err |-> "upload-error"]>>
    /\ UNCHANGED <<caller, sink>>
    /\ S3Frame

\* if err != nil { errC <- err }
UploadReport ==
    /\ mode = "s3" /\ goroutines # <<>> /\ goroutines[1].pc = "report"
    /\ IF goroutines[1].err # "nil"
       THEN /\ chan_CanSend(sink.errC)
            /\ sink' = [sink EXCEPT !.errC.buf = Append(@, goroutines[1].err)]
       ELSE UNCHANGED sink
    /\ goroutines' = <<[goroutines[1] EXCEPT !.pc = "close"]>>
    /\ UNCHANGED caller
    /\ S3Frame

\* close(errC)
UploadCloseChan ==
    /\ mode = "s3" /\ goroutines # <<>> /\ goroutines[1].pc = "close"
    /\ sink' = [sink EXCEPT !.errC.closed = TRUE]
    /\ goroutines' = <<[goroutines[1] EXCEPT !.pc = "done"]>>
    /\ UNCHANGED caller
    /\ S3Frame

NextS3 ==
    \/ S3Open
    \/ \E len \in 0..MaxWriteLen : S3Write(Payload(len))
    \/ S3WriteReturn
    \/ S3Close
    \/ S3CloseReturn
    \/ UploadRead
    \/ UploadEOF
    \/ UploadFail
    \/ UploadReport
    \/ UploadCloseChan

SpecS3 == InitS3 /\ [][NextS3]_vars

\* The scheduler lets every goroutine that can take a step take it; nothing
\* makes an upload fail.
SpecS3Fair ==
    /\ InitS3 /\ [][NextS3]_vars
    /\ WF_vars(S3WriteReturn) /\ WF_vars(S3CloseReturn)
    /\ WF_vars(UploadRead) /\ WF_vars(UploadEOF)
    /\ WF_vars(UploadReport) /\ WF_vars(UploadCloseChan)

\* ------------------------------------------------------------ the claims
CeilDiv(a, b) == (a + b - 1) \div b

\* the first Close of the Writer has returned nil
ClosedNil == mode = "bundle" /\ caller.closeErr = "nil"

\* what the tar framer writes for an image whose first bw.size bytes are data:
\* the header if WriteHeader was called, data, padding to a block, two zero blocks
TarStream(data) ==
    (IF bw.didInitialWrite THEN <<TarHeader(bw.size)>> ELSE <<>>)
    \o data
    \o (IF bw.size % TarBlockSize = 0 THEN <<>>
        ELSE <<TarZeros(TarBlockSize - (bw.size % TarBlockSize))>>)
    \o <<TarZeros(TarBlockSize), TarZeros(TarBlockSize)>>

\* C1 as stated: once Close has returned nil, the plaintext SHA-1 has absorbed
\* exactly the bytes the caller passed to Write, in order, and nothing else.
C1_HashOfCallerBytesOnly ==
    ClosedNil => sha1 = caller.passed

\* C1 amended: once Close has returned nil, the plaintext SHA-1 has absorbed
\* the tar stream: the tar header (if a Write was made), the first bw.size
\* bytes the caller passed, in order, the tar padding and the tar trailer; a
\* manifest written then carries the hex digest of that stream.
C1_HashOfTarStream ==
    ClosedNil =>
        /\ sha1 = TarStream(SubSeq(caller.passed, 1, bw.size))
        /\ (caller.last.op = "WriteManifest" /\ ~caller.early) =>
               caller.manifest.digest = Hex(TarStream(SubSeq(caller.passed, 1, bw.size)))

\* a two-byte image written in two Writes, closed, and its manifest written
C1_Witness ==
    /\ ClosedNil
    /\ bw.size = MaxSize
    /\ caller.writes = 2
    /\ Len(caller.passed) = MaxSize
    /\ caller.last.op = "WriteManifest"
    /\ caller.last.err = "nil"

\* C2: if the number of bytes the caller passed to Write before Close differs
\* from the declared size, Close returns a non-nil error.
C2_CloseDetectsSizeMismatch ==
    (mode = "bundle" /\ caller.closeErr # "none" /\ Len(caller.passed) # bw.size)
        => caller.closeErr # "nil"

\* C3: a chunk writer with chunk size C >= 1 over a sink that never fails
\* returns the full length and no error from every Write, and after Close the
\* sink holds exactly ceil(len/C) files <name>.part.0, <name>.part.1, ..., each
\* closed, the i-th holding bytes i*C+1 .. min((i+1)*C, len) of the input: all
\* but the last have C bytes, the last 1..C, the concatenation is the input.
C3_ChunksAreTheInput ==
    /\ caller.last.op = "Write" =>
          caller.last.n = caller.last.len /\ caller.last.err = "nil"
    /\ caller.last.op = "Close" =>
          LET L == Len(caller.passed)
              C == cw.chunkSize
          IN  /\ caller.last.err = "nil"
              /\ Len(sink.files) = CeilDiv(L, C)
              /\ \A i \in 1..Len(sink.files) :
                    /\ sink.files[i].name = PartName(i - 1)
                    /\ ~sink.files[i].open
                    /\ sink.files[i].data = SubSeq(caller.passed, (i - 1) * C + 1, Min(i * C, L))

\* Close after Writes that were split over three parts, the last part short
C3_Witness ==
    /\ mode = "chunks"
    /\ caller.last.op = "Close"
    /\ Len(sink.files) >= 3
    /\ Len(caller.passed) % cw.chunkSize # 0
    /\ caller.writes < Len(sink.files)

\* ---- the trace
Stages == SelectSeq(trace, LAMBDA e : e[1] = "stage")
CloseOrder == << <<"stage", "tar">>, <<"stage", "gz">>, <<"stage", "aes">>, <<"stage", "cw">> >>
StageAt(stage) == CHOOSE i \in 1..Len(trace) : trace[i][1] = "stage" /\ trace[i][2] = stage

IsSinkCall(e) == e[1] \in {"open", "write", "close"}
IsPartCall(e) == IsSinkCall(e) /\ e[2] # ManifestName

PartFiles == SelectSeq(sink.files, LAMBDA f : f.name # ManifestName)

RECURSIVE Concat(_)
Concat(files) == IF Len(files) = 0 THEN <<>> ELSE Head(files).data \o Concat(Tail(files))

Range(f) == {f[i] : i \in DOMAIN f}

Closed1 == mode = "bundle" /\ caller.closes >= 1

\* C4: Writer.Close calls the closes in the order tar, gzip, AES, chunk
\* writer; before the chunk writer's close no part file is closed for good
\* (a close is a rotation, followed at once by the next open), and after it
\* the only call on a part file is one close.  So when Close returns nil the
\* tar trailer has reached the compressor, the gzip trailer and the padding
\* the cipher, and every ciphertext block a part file that is now closed.
C4_CloseOrder ==
    Closed1 =>
        /\ Stages = CloseOrder
        /\ \A i \in 1..(StageAt("cw") - 1) :
              (trace[i][1] = "close" /\ IsPartCall(trace[i])) => trace[i + 1][1] = "open"
        /\ \A j \in (StageAt("cw") + 1)..Len(trace) :
              IsPartCall(trace[j]) => (j = StageAt("cw") + 1 /\ trace[j][1] = "close")
        /\ ClosedNil =>
              /\ Len(gz.input) >= 2
              /\ SubSeq(gz.input, Len(gz.input) - 1, Len(gz.input))
                    = <<TarZeros(TarBlockSize), TarZeros(TarBlockSize)>>
              /\ <<"gt", GzTrailerLen>> \in Range(aes.crypted)
              /\ aes.crypted[Len(aes.crypted)][1] = "pad"
              /\ Concat(PartFiles) = Ciphertext(0, aes.blocks)
              /\ \A i \in 1..Len(PartFiles) : ~PartFiles[i].open

\* Close returned nil after the padding block went to a second part
C4_Witness ==
    /\ ClosedNil
    /\ caller.writes >= 1
    /\ Len(PartFiles) >= 2
    /\ trace[Len(trace)] = <<"close", PartFiles[Len(PartFiles)].name>>

\* the error of a stage of the first Close, "nil" if it did not fail
ErrOf(stage) ==
    IF \E i \in 1..Len(caller.errors) : caller.errors[i][1] = stage
    THEN caller.errors[CHOOSE i \in 1..Len(caller.errors) : caller.errors[i][1] = stage][2]
    ELSE "nil"

\* C5: Writer.Close calls all four closes also when an earlier one failed
\* (a stage that did not fail is closed afterwards, no part file stays
\* current), and returns the error of the earliest stage that failed.
C5_AllStagesFirstError ==
    Closed1 =>
        /\ Stages = CloseOrder
        /\ ErrOf("gz") = "nil" => gz.closed
        /\ ErrOf("aes") = "nil" => ~aes.cbc
        /\ ~cw.w
        /\ caller.closeErr =
              (IF ErrOf("tar") # "nil" THEN ErrOf("tar")
               ELSE IF ErrOf("gz") # "nil" THEN ErrOf("gz")
               ELSE IF ErrOf("aes") # "nil" THEN ErrOf("aes")
               ELSE IF ErrOf("cw") # "nil" THEN ErrOf("cw")
               ELSE ErrOf("size"))

\* the tar close failed, the later stages were closed all the same
C5_Witness ==
    /\ Closed1
    /\ ErrOf("tar") # "nil"
    /\ Len(caller.errors) >= 2
    /\ gz.closed
    /\ ~aes.cbc
    /\ Len(PartFiles) >= 1
    /\ trace[Len(trace)][1] = "close"

WriterObjects == <<bw, tw, sha1, gz, aes, counters, cw, hsw, hs, sink, trace>>

\* C6: once Close has returned, with nil or with an error, the Writer is
\* closed: a later Close returns an error and changes nothing of the Writer,
\* its stages or the sink.
C6_CloseOnce ==
    /\ [](Closed1 => bw.closed)
    /\ [][(Closed1 /\ caller'.closes = caller.closes + 1)
            => (caller'.last.err # "nil" /\ UNCHANGED WriterObjects)]_vars

\* a second Close after a first Close that returned an error
C6_Witness ==
    /\ mode = "bundle"
    /\ caller.closes = 2
    /\ caller.closeErr \notin {"nil", "none"}
    /\ caller.last.op = "Close"

\* C7: after Close has been called, every Write (also the first Write of a
\* Writer closed while Fresh) returns an error, leaves true_size unchanged
\* and makes no call on the sink.
C7_WriteAfterClose ==
    [][(Closed1 /\ caller'.writes = caller.writes + 1)
         => /\ caller'.last.err # "nil"
            /\ counters'.trueSize = counters.trueSize
            /\ sink' = sink
            /\ trace' = trace]_vars

\* a first-ever Write of one byte on a Writer that was closed while Fresh
C7_Witness ==
    /\ Closed1
    /\ caller.last.op = "Write"
    /\ caller.last.len > 0
    /\ caller.writes = 1
    /\ ~bw.didInitialWrite

Opens(name) ==
    Cardinality({i \in 1..Len(trace) : trace[i][1] = "open" /\ trace[i][2] = name})

OpenedNames == {trace[i][2] : i \in {j \in 1..Len(trace) : trace[j][1] = "open"}}

OpenCount(k) ==
    Cardinality({i \in 1..k : trace[i][1] = "open" /\ trace[i][3]})
    - Cardinality({i \in 1..k : trace[i][1] = "close"})

\* C9: when WriteManifest is only called after Close, at most one file of
\* the sink is open at any point: a part is closed before the next part is
\* opened, the last part before the manifest.
C9_OneOpenFile ==
    (mode = "bundle" /\ ~caller.early) => \A k \in 1..Len(trace) : OpenCount(k) <= 1

\* two parts, then Close, then the manifest
C9_Witness ==
    /\ Closed1
    /\ ~caller.early
    /\ Len(PartFiles) >= 2
    /\ caller.last.op = "WriteManifest"
    /\ caller.last.err = "nil"

\* C10: after a Close that returned nil the number of part files, of part
\* records and the manifest's parts count are ceil(bundled_size / chunk size);
\* every part but the last holds exactly a chunk, the last at most a chunk.
C10_PartCount ==
    ClosedNil =>
        LET K == CeilDiv(counters.bundledSize, cw.chunkSize)
        IN  /\ Len(PartFiles) = K
            /\ Len(hs) = K
            /\ \A i \in 1..Len(PartFiles) :
                  /\ Len(PartFiles[i].data) <= cw.chunkSize
                  /\ i < Len(PartFiles) => Len(PartFiles[i].data) = cw.chunkSize
            /\ (caller.last.op = "WriteManifest" /\ ~caller.early) => caller.manifest.count = K

\* three parts, the manifest written after Close
C10_Witness ==
    /\ ClosedNil
    /\ Len(PartFiles) >= 3
    /\ counters.bundledSize % cw.chunkSize # 0
    /\ caller.last.op = "WriteManifest"
    /\ ~caller.early

\* C11: after a Close that returned nil, bundled_size is a positive multiple
\* of the AES block size, for every declared size and every sequence of
\* Writes: it counts the whole blocks the cipher handed down, the padding
\* block among them, and the part files hold as many bytes.
C11_BundledSizeBlocks ==
    ClosedNil =>
        /\ counters.bundledSize > 0
        /\ counters.bundledSize % BlockSize = 0
        /\ counters.bundledSize = aes.blocks * BlockSize
        /\ counters.bundledSize = Len(Concat(PartFiles))

\* bytes were written, the bundle is three blocks or more
C11_Witness ==
    /\ ClosedNil
    /\ Len(caller.passed) > 0
    /\ counters.bundledSize >= 3 * BlockSize

\* the sink file a part record names
FileOf(record) == sink.files[CHOOSE j \in 1..Len(sink.files) : sink.files[j].name = record.filename]

\* C12: the digest of every part record of the hashing sink is the SHA-1 of
\* exactly the bytes the sink file of that name accepted, also in runs in
\* which a write to the file returned an error or a short count.
C12_PartDigestOfAcceptedBytes ==
    mode = "bundle" =>
        \A i \in 1..Len(hs) : hs[i].hash = FileOf(hs[i]).data

\* C13: the manifest a WriteManifest call builds carries true_size as size,
\* the count of ciphertext bytes as bundled_size, the length of the hashing
\* sink's list as parts count; its k-th part (k from 0) has index k and the
\* filename and hex digest of the k-th entry of the list, which is the k-th
\* part file the chunk writer produced.
C13_ManifestFromWriter ==
    [][(mode = "bundle" /\ caller'.manifests = caller.manifests + 1)
         => LET m == caller'.manifest
            IN  /\ m.size = counters.trueSize
                /\ m.bundledSize = counters.bundledSize
                /\ ClosedNil => m.bundledSize = aes.blocks * BlockSize
                /\ m.count = Len(hs)
                /\ Len(m.parts) = Len(hs)
                /\ \A i \in 1..Len(hs) :
                      /\ m.parts[i].index = i - 1
                      /\ m.parts[i].filename = hs[i].filename
                      /\ m.parts[i].digest = Hex(hs[i].hash)
                      /\ m.parts[i].filename = PartFiles[i].name]_vars

\* a manifest of three parts, written after Close returned nil
C13_Witness ==
    /\ ClosedNil
    /\ caller.last.op = "WriteManifest"
    /\ caller.last.err = "nil"
    /\ caller.manifest.count >= 3
    /\ caller.manifest.size = MaxSize

\* a call on the sink or on one of its files has failed
FaultHit == \E k \in faults.at : k <= sink.calls

ClosedFiles == SelectSeq(caller.files, LAMBDA f : f.closed)

\* C14: when files are opened, written and closed one after another through
\* the hashing sink, its list holds one entry per closed file, in the order
\* of the closes, with the file's name and the SHA-1 of all bytes written to
\* it; the entry is appended before the file below is closed (it is there
\* also when that close returns an error), and while no call on the sink has
\* failed the file below holds the same bytes, and is open until closed.
C14_HashingSinkRecords ==
    mode = "hashing" =>
        /\ Len(hs) = Len(ClosedFiles)
        /\ \A i \in 1..Len(hs) :
              /\ hs[i].filename = ClosedFiles[i].name
              /\ hs[i].hash = ClosedFiles[i].data
        /\ Len(sink.files) = Len(caller.files)
        /\ ~FaultHit =>
              \A i \in 1..Len(caller.files) :
                  /\ sink.files[i].name = caller.files[i].name
                  /\ sink.files[i].data = caller.files[i].data
                  /\ sink.files[i].open = ~caller.files[i].closed

\* two files written and closed, the close of the first returned an error
C14_Witness ==
    /\ mode = "hashing"
    /\ Len(hs) = 2
    /\ hs[1].hash # <<>>
    /\ hs[2].hash # <<>>
    /\ hs[1].hash # hs[2].hash
    /\ caller.files[1].err \notin {"nil", "none"}

\* The modulus of the certificate each region is to get.
ExpectedModulus(region) ==
    IF region = "us-gov-west-1" THEN <<"modulusCertEc2Gov">>
    ELSE IF region = "cn-north-1" THEN <<"modulusCertEc2CnNorth1">>
    ELSE <<"modulusCertEc2">>

\* C15: CertificateForEC2Region returns, without an error, the GovCloud
\* certificate for "us-gov-west-1" and for no other region, the China-North
\* certificate for "cn-north-1" and for no other region, and the default
\* certificate for every other string, the empty and the unknown ones
\* included; the result depends on the region alone.
C15_CertificateByRegion ==
    (mode = "manifest" /\ caller.lookup.err # "none") =>
        /\ caller.lookup.err = "nil"
        /\ caller.lookup.cert.PublicKey.alg = "RSA"
        /\ caller.lookup.cert.PublicKey.N = ExpectedModulus(caller.md.AWSRegion)
        /\ (caller.lookup.cert.PublicKey.N = <<"modulusCertEc2Gov">>)
              <=> (caller.md.AWSRegion = "us-gov-west-1")
        /\ (caller.lookup.cert.PublicKey.N = <<"modulusCertEc2CnNorth1">>)
              <=> (caller.md.AWSRegion = "cn-north-1")
        /\ caller.lookup = CertificateForEC2Region(caller.md.AWSRegion)

\* the China-North certificate has been returned
C15_Witness ==
    /\ mode = "manifest"
    /\ caller.lookup.err = "nil"
    /\ caller.md.AWSRegion = "cn-north-1"
    /\ caller.lookup.cert.PublicKey.N = <<"modulusCertEc2CnNorth1">>

\* What the holder of a private key reads in a ciphertext.
rsa_DecryptPKCS1v15(priv, ciphertext) ==
    IF Len(ciphertext) = 3 /\ ciphertext[1] = "rsa" /\ ciphertext[2] = priv.N
    THEN ciphertext[3]
    ELSE <<"garbage">>

\* the bytes a hexadecimal field of the manifest stands for
Unhex(field) == field[2]

LowerHex == <<"0", "1", "2", "3", "4", "5", "6", "7", "8", "9", "a", "b", "c", "d", "e", "f">>
HexValue(c) == (CHOOSE v \in 1..16 : LowerHex[v] = c) - 1

\* text is the lowercase hexadecimal encoding of the 16 bytes of secret
IsHexOf(text, secret) ==
    /\ Len(secret) = KeyLen
    /\ Len(text) = 2 * KeyLen
    /\ \A j \in 1..Len(text) : \E v \in 1..16 : LowerHex[v] = text[j]
    /\ \A i \in 1..Len(secret) :
          16 * HexValue(text[2 * i - 1]) + HexValue(text[2 * i]) = secret[i]

Ec2PrivateKey(region) == [N |-> ExpectedModulus(region)]

\* C16: after an EncryptSecrets that returned nil, decrypting
\* ec2_encrypted_key and ec2_encrypted_iv with the private key of the
\* region's EC2 certificate, and user_encrypted_key and user_encrypted_iv
\* with the user's private key, yields the 32 lowercase hexadecimal
\* characters of the AES key (the two key fields) and of the IV (the two iv
\* fields), and never the 16 raw bytes.
C16_SecretsEncryptedAsHex ==
    (mode = "manifest" /\ caller.encrypt.err = "nil") =>
        LET ec2 == Ec2PrivateKey(caller.md.AWSRegion)
            user == caller.md.UserKey
            ec2Key == rsa_DecryptPKCS1v15(ec2, Unhex(caller.m.EC2EncryptedKey.Value))
            userKey == rsa_DecryptPKCS1v15(user, Unhex(caller.m.UserEncryptedKey.Value))
            ec2IV == rsa_DecryptPKCS1v15(ec2, Unhex(caller.m.EC2EncryptedIV))
            userIV == rsa_DecryptPKCS1v15(user, Unhex(caller.m.UserEncryptedIV))
        IN  /\ IsHexOf(ec2Key, bw.key)
            /\ IsHexOf(userKey, bw.key)
            /\ IsHexOf(ec2IV, bw.iv)
            /\ IsHexOf(userIV, bw.iv)
            /\ {ec2Key, userKey, ec2IV, userIV} \cap {bw.key, bw.iv} = {}
            /\ caller.m.EC2EncryptedKey.Algorithm = "AES-128-CBC"
            /\ caller.m.UserEncryptedKey.Algorithm = "AES-128-CBC"

\* secrets encrypted for the GovCloud key and for a user key, the key and
\* the IV different and with bytes below 16
C16_Witness ==
    /\ mode = "manifest"
    /\ caller.encrypt.err = "nil"
    /\ caller.md.AWSRegion = "us-gov-west-1"
    /\ bw.key # bw.iv
    /\ \E i \in 1..KeyLen : bw.key[i] < 16
    /\ caller.m.EC2EncryptedKey.Value # caller.m.UserEncryptedKey.Value
    /\ caller.m.EC2EncryptedKey.Value # caller.m.EC2EncryptedIV

\* Where a token stands in a document, and how often.
IndexOf(doc, token) == CHOOSE i \in 1..Len(doc) : doc[i] = token
CountOf(doc, token) == Cardinality({i \in 1..Len(doc) : doc[i] = token})

\* C17: the document SignAndMarshal returns is the prolog
\* <?xml version='1.0'?>, then one manifest element holding, in this order,
\* version 2007-10-10, the bundler element, the fragment S (the
\* machine_configuration element followed by the image element) and the
\* signature element; the signature is the user key's signature of the
\* SHA-1 of exactly the tokens that stand between the bundler and the
\* signature elements.
C17_DocumentOrderAndSplice ==
    (mode = "manifest" /\ caller.sign.err = "nil") =>
        LET doc == caller.sign.bytes
            n == Len(doc)
            bundlerEnd == IndexOf(doc, <<"</", "bundler">>)
            sigStart == IndexOf(doc, <<"<", "signature", <<>>>>)
            S == SubSeq(doc, bundlerEnd + 1, sigStart - 1)
        IN  /\ doc[1] = <<"<?xml version='1.0'?>">>
            /\ doc[2] = <<"<", "manifest", <<>>>>
            /\ doc[n] = <<"</", "manifest">>
            /\ SubSeq(doc, 3, 5) =
                  << <<"<", "version", <<>>>>, <<"text", "2007-10-10">>, <<"</", "version">> >>
            /\ doc[6] = <<"<", "bundler", <<>>>>
            /\ \A token \in {<<"<", "manifest", <<>>>>, <<"</", "manifest">>,
                             <<"<", "bundler", <<>>>>, <<"</", "bundler">>,
                             <<"<", "machine_configuration", <<>>>>, <<"</", "image">>,
                             <<"<", "signature", <<>>>>, <<"</", "signature">>} :
                  CountOf(doc, token) = 1
            /\ 6 < bundlerEnd /\ bundlerEnd < sigStart
            /\ sigStart + 3 = n
            /\ doc[sigStart + 2] = <<"</", "signature">>
            /\ S[1] = <<"<", "machine_configuration", <<>>>>
            /\ S[Len(S)] = <<"</", "image">>
            /\ Unhex(doc[sigStart + 1][2]) =
                  <<"sig", caller.md.UserKey.N, <<"sha1", S>>>>

\* a document for a manifest with two parts and encrypted secrets
C17_Witness ==
    /\ mode = "manifest"
    /\ caller.sign.err = "nil"
    /\ caller.encrypt.err = "nil"
    /\ caller.sign.m.count = 2
    /\ caller.sign.m.EC2EncryptedKey.Algorithm = "AES-128-CBC"
    /\ Len(caller.sign.m.Bundler.Comment) > 0
    /\ Len(caller.sign.bytes) > 40

\* What the step just taken added to the trace.
NewEvents == SubSeq(trace', Len(trace) + 1, Len(trace'))

\* C18: a WriteManifest call that gets as far as the sink opens one file,
\* the manifest file; if the open succeeds it makes one Write call on it,
\* with the whole document, then one Close call, and nothing else; it
\* returns an error if the open fails, if the Write returns an error or if
\* the Write accepts fewer bytes than the document has; a call that stops
\* before the sink makes no sink call.
C18_ManifestWrittenOnce ==
    [][(mode = "bundle" /\ caller'.manifests = caller.manifests + 1) =>
          LET new == NewEvents
              doc == caller'.doc
              err == caller'.last.err
              file == sink'.files[Len(sink'.files)]
          IN  IF caller'.reached = caller.reached
              THEN sink' = sink /\ trace' = trace /\ err # "nil"
              ELSE /\ Len(doc) > 0
                   /\ Len(new) \in {1, 3}
                   /\ new[1][1] = "open" /\ new[1][2] = ManifestName
                   /\ Len(new) = 1 => (~new[1][3] /\ err # "nil"
                                       /\ sink'.files = sink.files)
                   /\ Len(new) = 3 =>
                         /\ new[1][3]
                         /\ new[2][1] = "write" /\ new[2][2] = ManifestName
                         /\ new[2][4] = Len(doc)
                         /\ new[3] = <<"close", ManifestName>>
                         /\ Len(sink'.files) = Len(sink.files) + 1
                         /\ file.name = ManifestName /\ ~file.open
                         /\ file.data = SubSeq(doc, 1, new[2][3])
                         /\ new[2][3] < Len(doc) => err # "nil"
                         /\ (sink.calls + 2) \in faults.at => err # "nil"
                         /\ err = "nil" => file.data = doc]_vars

\* a WriteManifest whose Write accepted half of the document without an
\* error: the call returned the short-write error and the file is closed
C18_Witness ==
    /\ mode = "bundle"
    /\ caller.manifests >= 1
    /\ caller.last.op = "WriteManifest"
    /\ caller.last.err = "short manifest write"
    /\ caller.last.n < Len(caller.doc)
    /\ ~sink.files[Len(sink.files)].open
    /\ trace[Len(trace)] = <<"close", ManifestName>>

\* A user key the manifest can be made with: none (one is generated), or one
\* long enough for the hexadecimal secrets and for a SHA-1 signature.
UsableKey(md) == md.UserKey = NilKey \/ md.UserKey.k >= 15 + 20 + 11

\* The three sink calls of the WriteManifest about to be made all work.
SinkWorks ==
    /\ ~faults.short
    /\ \A k \in 1..3 : (sink.calls + k) \notin faults.at

\* what a manifest says of the bundle
BundleFacts(m) ==
    [size |-> m.size, bundledSize |-> m.bundledSize, digest |-> m.digest,
     parts |-> m.parts, count |-> m.count]

\* C19: a WriteManifest call leaves the Writer as it was (key, IV, counters,
\* plaintext hash, part records, and every stage of the chain); on a closed
\* Writer, a call right after another call yields the same size,
\* bundled_size, image digest and parts list, as many parts as the Writer
\* has part records, and the call returns nil whenever its user key is
\* usable and the sink calls it makes work, however many calls came before.
C19_ManifestLeavesWriter ==
    [][(mode = "bundle" /\ caller'.manifests = caller.manifests + 1) =>
          /\ UNCHANGED <<bw, tw, sha1, gz, aes, counters, cw, hsw, hs>>
          /\ bw.closed =>
                /\ Len(caller'.manifest.parts) = Len(hs)
                /\ caller'.manifest.count = Len(hs)
                /\ caller.last.op = "WriteManifest" =>
                       BundleFacts(caller'.manifest) = BundleFacts(caller.manifest)
                /\ (UsableKey(caller'.md) /\ SinkWorks) => caller'.last.err = "nil"]_vars

\* the third WriteManifest in a row on a Writer closed with a part, each of
\* the three having written its document in full
C19_Witness ==
    /\ mode = "bundle"
    /\ ClosedNil
    /\ caller.manifests = 3
    /\ caller.last.op = "WriteManifest"
    /\ caller.last.err = "nil"
    /\ caller.manifest.count >= 1
    /\ Len(sink.files) >= 4
    /\ \A i \in 0..2 :
          /\ sink.files[Len(sink.files) - i].name = ManifestName
          /\ Len(sink.files[Len(sink.files) - i].data) > 40
          /\ ~sink.files[Len(sink.files) - i].open

\* C20: once Close has returned nil, a later Write or Close on the Writer
\* makes no call on the sink: no file is opened, written to or closed, and
\* the files stay as they were.
C20_NoSinkCallAfterClose ==
    [][(ClosedNil /\ (caller'.writes = caller.writes + 1 \/ caller'.closes = caller.closes + 1))
         => /\ sink' = sink
            /\ \A i \in 1..Len(NewEvents) : ~IsSinkCall(NewEvents[i])]_vars

\* a Write of two bytes and then a Close, both after a Close that returned
\* nil on a Writer with a part file
C20_Witness ==
    /\ ClosedNil
    /\ caller.writes = 2
    /\ caller.closes = 2
    /\ caller.last.op = "Close"
    /\ caller.last.err # "nil"
    /\ Len(PartFiles) >= 1
    /\ Len(caller.passed) = MaxSize
    /\ trace[Len(trace)][1] = "close"

\* C21: for an empty image (declared size 0, no byte passed, with or without
\* a Write call), once Close has returned nil the stream handed to the
\* compressor is one tar header followed by the two trailing zero blocks.
C21_EmptyImageHasHeader ==
    (ClosedNil /\ bw.size = 0 /\ Len(caller.passed) = 0) =>
        gz.input = <<TarHeader(0), TarZeros(TarBlockSize), TarZeros(TarBlockSize)>>

\* C22 as stated: for an empty image, after Close the bundled size is 16 and
\* there is one part file, of 16 bytes.
C22_EmptyImageSixteenBytes ==
    (ClosedNil /\ bw.size = 0 /\ Len(caller.passed) = 0) =>
        /\ counters.bundledSize = BlockSize
        /\ Len(PartFiles) = 1
        /\ Len(PartFiles[1].data) = BlockSize

\* C22 amended: for an empty image, after Close the bundled size is a
\* multiple of 16 and at least 32, because the gzip stream of the empty
\* archive has at least its 10-byte header and 8-byte trailer before the
\* padding; the part files hold exactly that many bytes, in as many parts as
\* the chunk size makes of them.
C22_EmptyImageAtLeastTwoBlocks ==
    (ClosedNil /\ bw.size = 0 /\ Len(caller.passed) = 0) =>
        /\ counters.bundledSize % BlockSize = 0
        /\ counters.bundledSize >= 2 * BlockSize
        /\ counters.bundledSize >= GzHeaderLen + GzTrailerLen
        /\ Len(Concat(PartFiles)) = counters.bundledSize
        /\ Len(PartFiles) = CeilDiv(counters.bundledSize, ChunkSize)

\* an empty image closed without any Write: 32 bytes of ciphertext
C22_Witness ==
    /\ ClosedNil
    /\ bw.size = 0
    /\ caller.writes = 0
    /\ counters.bundledSize = 2 * BlockSize
    /\ Len(Concat(PartFiles)) = 2 * BlockSize

\* C23: a Writer on which a Write has returned an error reports no success
\* afterwards; in particular the call made right after that Write, be it a
\* Write or the Close, returns an error.
C23_TerminalOnWriteError ==
    [][(mode = "bundle" /\ ~bw.closed
        /\ caller.last.op = "Write" /\ caller.last.err # "nil"
        /\ (caller'.writes = caller.writes + 1 \/ caller'.closes = caller.closes + 1))
         => caller'.last.err # "nil"]_vars

\* C24: when a call to the sink fails during a chunkWriter Write (the open of
\* a part file, the close of the previous part at a rotation, or a write to
\* the current part), that Write returns an error and makes no sink call
\* after the failed one.
C24_ChunkWriteStopsAtSinkError ==
    [][(mode = "chunks" /\ caller'.writes = caller.writes + 1) =>
          \A k \in faults.at :
              (sink.calls < k /\ k <= sink'.calls) =>
                  (caller'.last.err # "nil" /\ sink'.calls = k)]_vars

\* C25: a Write of p to an open AES writer whose downstream accepts
\* everything returns len(p) and a nil error, whatever is buffered.
C25_WriteReturnsLen ==
    [][(mode = "aes" /\ aes.cbc /\ faults.at = {}
        /\ caller'.writes = caller.writes + 1)
         => (caller'.last.n = caller'.last.len /\ caller'.last.err = "nil")]_vars

\* the padding of a final block that holds k plaintext bytes
Pkcs7(k) == [i \in 1..(BlockSize - k) |-> <<"pad", BlockSize - k>>]

\* C26: when the downstream never fails and T plaintext bytes were written
\* before the Close, the Close returns nil and has encrypted one more block,
\* the last T mod 16 bytes followed by N = 16 - T mod 16 bytes of value N;
\* the downstream has then received 16 * (T div 16 + 1) bytes.
C26_ClosePads ==
    (mode = "aes" /\ faults.at = {} /\ caller.closes >= 1) =>
        LET T == Len(caller.passed)
            N == BlockSize - (T % BlockSize)
            total == BlockSize * ((T \div BlockSize) + 1)
        IN  /\ caller.closeErr = "nil"
            /\ N \in 1..BlockSize
            /\ aes.blocks = (T \div BlockSize) + 1
            /\ Len(aes.crypted) = total
            /\ SubSeq(aes.crypted, total - BlockSize + 1, total)
                   = SubSeq(caller.passed, T - (T % BlockSize) + 1, T) \o Pkcs7(T % BlockSize)
            /\ counters.bundledSize = total
            /\ Len(Concat(PartFiles)) = total

C26_Witness ==
    /\ mode = "aes" /\ faults.at = {} /\ caller.closes >= 1
    /\ Len(caller.passed) = BlockSize + 9
    /\ SubSeq(aes.crypted, 2 * BlockSize - 6, 2 * BlockSize) = [i \in 1..7 |-> <<"pad", 7>>]
    /\ counters.bundledSize = 2 * BlockSize

\* C27: once Close has been called on the AES writer, whether or not the
\* write of the padding block failed, every later Write or Close returns the
\* "already closed" error and sends nothing downstream.
C27_ClosedAfterClose ==
    [][(mode = "aes" /\ caller.closes >= 1
        /\ (caller'.writes = caller.writes + 1 \/ caller'.closes = caller.closes + 1))
         => (caller'.last.err = "aes-closed" /\ sink' = sink)]_vars

\* the goroutines whose Close has stored its record
Stored == {g \in Goroutines : goroutines[g].pc \in {"unlock", "delegate", "done"}
                               /\ goroutines[g].hsw # NoWriter}

\* C28: when two goroutines close files of one hashing sink at the same time,
\* under every interleaving each Close that has passed its append has its
\* (filename, digest) record in the sink's list exactly once, and the list
\* holds nothing else: no record is lost or overwritten.
C28_ConcurrentCloseKeepsRecords ==
    (mode = "locking" /\ goroutines # <<>>) =>
        /\ Len(hs) = Cardinality(Stored)
        /\ \A g \in Stored :
              Cardinality({i \in DOMAIN hs : hs[i] = goroutines[g].file}) = 1

\* both Closes have returned, the second goroutine's record stored first
C28_Witness ==
    /\ mode = "locking" /\ goroutines # <<>>
    /\ \A g \in Goroutines : goroutines[g].pc = "done" /\ goroutines[g].hsw # NoWriter
    /\ Len(hs) = 2
    /\ hs[1].filename = FileName(2) /\ hs[2].filename = FileName(1)

\* where the tar header stands in a stream written by the tar framer
HeaderAt(stream) == {i \in DOMAIN stream : stream[i] = TarHeader(bw.size)}

\* C29: the tar header, carrying the declared size, is written by the tar
\* framer at most once; it is written during the first Write call, as the
\* first thing of the stream and so before any payload byte; once the
\* initial write has succeeded the header is there, and no later Write
\* writes another.
C29_HeaderOnce ==
    [][mode = "bundle" =>
          /\ HeaderAt(sha1') \subseteq {1}
          /\ HeaderAt(gz'.input) \subseteq {1}
          /\ HeaderAt(sha1') # HeaderAt(sha1) =>
                 (caller.writes = 0 /\ caller'.writes = 1 /\ sha1 = <<>>)
          /\ bw'.didInitialWrite =>
                 (HeaderAt(sha1') = {1} /\ HeaderAt(gz'.input) = {1})
          /\ (bw.didInitialWrite /\ caller'.writes = caller.writes + 1) =>
                 (bw'.didInitialWrite /\ HeaderAt(sha1') = HeaderAt(sha1))]_vars

\* three Writes have returned nil, two of them with a payload byte, and the
\* stream holds the header once, before the payload
C29_Witness ==
    /\ mode = "bundle" /\ bw.didInitialWrite /\ ~bw.closed
    /\ caller.writes = 3 /\ caller.last.err = "nil"
    /\ sha1 = <<TarHeader(MaxSize), <<"in", 1>>, <<"in", 2>>>>

\* the ciphertext the downstream holds: the part files one after another
Downstream == Concat(PartFiles)

\* C30: when the downstream never fails, the plaintext handed to the CBC
\* encrypter, block after block, is the plaintext written so far less the
\* bytes still buffered and, once Close has returned, the whole plaintext
\* followed by the padding: every byte once and in order, however the
\* plaintext was split over the Writes; the downstream holds the ciphertext
\* of these blocks in the order they were encrypted.
C30_BlocksInOrder ==
    (mode = "aes" /\ faults.at = {}) =>
        LET T == Len(caller.passed)
        IN  /\ Len(aes.crypted) = aes.blocks * BlockSize
            /\ Downstream = Ciphertext(0, aes.blocks)
            /\ IF caller.closes = 0
               THEN /\ aes.crypted \o aes.buffer = caller.passed
                    /\ Len(aes.buffer) < BlockSize
               ELSE aes.crypted = caller.passed \o Pkcs7(T % BlockSize)

\* two Writes that split 25 bytes across a block boundary, then the Close
C30_Witness ==
    /\ mode = "aes" /\ faults.at = {} /\ caller.closes = 1 /\ caller.writes = 2
    /\ Len(caller.passed) = BlockSize + 9
    /\ aes.crypted = caller.passed \o Pkcs7(9)
    /\ Downstream = Ciphertext(0, 2)

\* C31: between calls the buffer of the AES writer holds at most 15 bytes,
\* after any sequence of Write calls, also when a downstream write returned
\* an error or a short count.
C31_BufferBelowBlock ==
    (mode = "aes" /\ caller.closes = 0) => Len(aes.buffer) < BlockSize

\* The error WriteManifest(md) meets before it reaches the sink, "nil" if
\* none: the generation of a user key, then the encryption of the secrets
\* (the look-up of the region's certificate and four RSA encryptions), then
\* the signature and the serialization, each asked of the operation itself.
FailsBeforeSink(md, rnd) ==
    IF md.UserKey = NilKey /\ rand_Reader_Read(rnd) # "nil" THEN rand_Reader_Read(rnd)
    ELSE With(IF md.UserKey = NilKey THEN rsa_GenerateKey(rnd) ELSE md.UserKey, LAMBDA userKey :
         With(EncryptSecrets(populateManifest(Cur, toManifest(md)), bw.key, bw.iv,
                             md.AWSRegion, PublicKey(userKey)), LAMBDA e :
             IF e.err # "nil" THEN e.err
             ELSE SignAndMarshal(e.m, userKey).err))

\* C32: when the generation of the user key, the look-up of the region's
\* certificate, one of the RSA encryptions or the signing and serialization
\* fails, WriteManifest returns that error and makes no call to the sink:
\* no file is opened, nothing is written.
C32_FailureBeforeSink ==
    [][(mode = "wm" /\ caller'.manifests = caller.manifests + 1
        /\ FailsBeforeSink(caller'.md, caller'.rnd) # "nil") =>
          /\ caller'.last.err = FailsBeforeSink(caller'.md, caller'.rnd)
          /\ ~caller'.reached
          /\ sink' = sink
          /\ trace' = trace]_vars

\* WriteManifest has returned the error of the signature, for a user key too
\* short to sign with, and the sink has seen no call
C32_Witness ==
    /\ mode = "wm" /\ caller.manifests = 1
    /\ caller.md.UserKey = UserKey(44) /\ caller.md.AWSRegion = "us-east-1"
    /\ caller.last.err # "nil"
    /\ caller.last.err = SignAndMarshal(populateManifest(Cur, toManifest(caller.md)), caller.md.UserKey).err
    /\ sink.calls = 0 /\ trace = <<>>

\* the bytes the part files accepted, summed over the Write calls made on them
RECURSIVE AcceptedByParts(_)
AcceptedByParts(tr) ==
    IF Len(tr) = 0 THEN 0
    ELSE (IF Head(tr)[1] = "write" /\ Head(tr)[2] # ManifestName THEN Head(tr)[3] ELSE 0)
         + AcceptedByParts(Tail(tr))

\* C33: in every state of a Writer, also after sink errors, bundled_size is
\* the number of bytes the part files have accepted so far, which is the
\* number of bytes they hold.
C33_BundledSizeIsAccepted ==
    mode = "bundle" =>
        /\ counters.bundledSize = AcceptedByParts(trace)
        /\ counters.bundledSize = Len(Concat(PartFiles))

\* a part write has failed after accepting some of its bytes, and more
\* bytes were written to the parts afterwards
C33_Witness ==
    /\ mode = "bundle"
    /\ \E i \in 1..Len(trace) :
          /\ trace[i][1] = "write" /\ trace[i][2] # ManifestName
          /\ 0 < trace[i][3] /\ trace[i][3] < trace[i][4]
          /\ \E j \in (i + 1)..Len(trace) :
                trace[j][1] = "write" /\ trace[j][2] # ManifestName /\ trace[j][3] > 0
    /\ counters.bundledSize = Len(Concat(PartFiles))

\* C34: once Writer.Close has returned, with nil or with an error, Close has
\* been called on every part file that was opened: none is left open, also
\* when the close of the tar, gzip or AES stage failed.
C34_NoPartLeftOpen ==
    (mode = "bundle" /\ caller.closes >= 1) =>
        /\ \A i \in 1..Len(sink.files) : ~sink.files[i].open
        /\ ~cw.w

\* Close has returned an error of a stage above the chunk writer, parts were
\* opened, and every one of them has been closed
C34_Witness ==
    /\ mode = "bundle" /\ caller.closes = 1 /\ caller.last.op = "Close"
    /\ caller.closeErr \notin {"nil", "none"}
    /\ Len(PartFiles) >= 2
    /\ \A i \in 1..Len(sink.files) : ~sink.files[i].open
    /\ \E i \in 1..Len(trace) : trace[i][1] = "write" /\ trace[i][3] < trace[i][4]

\* C35: every call of chunkWriter.Write returns, after finitely many sink
\* calls, also when WriteBundleFile fails on every call.
C35_WriteReturns ==
    (mode = "loop" /\ caller.pc = "for") ~> (caller.pc = "idle")

\* the upload goroutine has run Upload and reported its result
UploadOver == goroutines # <<>> /\ goroutines[1].pc \in {"close", "done"}

\* C36 as stated: the first Close of an S3 sink file returns only after the
\* upload goroutine has finished; it returns the error of the upload if the
\* upload failed and nil if it succeeded; the goroutine is never held up
\* when it reports.
C36_CloseAfterGoroutineEnd ==
    mode = "s3" =>
        /\ caller.closeErr # "none" =>
              (goroutines[1].pc = "done" /\ caller.closeErr = goroutines[1].err)
        /\ (goroutines # <<>> /\ goroutines[1].pc = "report") => chan_CanSend(sink.errC)

\* C36 amended: the first Close of an S3 sink file returns only after Upload
\* has returned and the goroutine has reported its result (after a failed
\* upload the goroutine may still have the channel to close); it returns the
\* error of the upload if the upload failed and nil if it succeeded; the
\* goroutine is never held up when it reports: the channel has room for its
\* error and is still open.
C36_CloseWaitsForUpload ==
    mode = "s3" =>
        /\ caller.closeErr # "none" =>
              (UploadOver /\ caller.closeErr = goroutines[1].err)
        /\ caller.closeErr = "nil" => goroutines[1].pc = "done"
        /\ (goroutines # <<>> /\ goroutines[1].pc = "report") =>
              (chan_CanSend(sink.errC) /\ ~sink.errC.closed)
        /\ (goroutines # <<>> /\ goroutines[1].pc = "close") => ~sink.errC.closed

\* the first Close has returned the error of an upload that failed after
\* taking bytes, and the goroutine has not closed the channel yet
C36_Witness ==
    /\ mode = "s3" /\ caller.closes = 1 /\ caller.pc = "idle"
    /\ caller.closeErr = "upload-error"
    /\ goroutines[1].err = "upload-error" /\ goroutines[1].pc = "close"
    /\ Len(sink.uploaded) > 0

\* C37: every Write and every Close on an S3 sink file returns in the end,
\* also when the upload fails and stops reading before it has taken all the
\* bytes written to the pipe.
C37_CallsReturn ==
    (mode = "s3" /\ caller.pc # "idle") ~> (caller.pc = "idle")

====
